---- MODULE Spec2Model ----
(***************************************************************************)
(* The useRBAC hook (the client-side mirror of permissions, roles and      *)
(* role_permissions) together with the remote store it writes through to.  *)
(*                                                                         *)
(* Every hook operation is an async function: it sends one request (load   *)
(* sends three), the store executes the request at some later moment, and  *)
(* the continuation after `await` applies the reconciliation to the        *)
(* mirror.  The three moments are separate steps of the model, so calls    *)
(* that were fired without awaiting each other interleave freely.          *)
(*                                                                         *)
(* A row is [id, name, created_at]; `description` travels with the row and *)
(* is read by no operation of the hook, so it is not carried.  created_at  *)
(* is the store's stamp, taken at the insert from the generator of ids.    *)
(* Names are the integers of Names and a.name.localeCompare(b.name) is     *)
(* their order; the store's ORDER BY name is taken to agree with it.       *)
(* A user is signed in throughout, so fetchData never returns at its first *)
(* line, and the state after construction has the load of the mount effect *)
(* in flight.                                                              *)
(* The setState calls of one continuation are committed in one render      *)
(* (automatic batching), so a continuation is one step.                    *)
(***************************************************************************)
EXTENDS Integers, Sequences, FiniteSets, TLC

VARIABLES
    permissions,        \* useState<Permission[]>      (mirror)
    roles,              \* useState<Role[]>            (mirror)
    rolePermissions,    \* useState<RolePermission[]>  (mirror)
    dbPermissions,      \* table permissions           (store)
    dbRoles,            \* table roles                 (store)
    dbRolePermissions,  \* table role_permissions      (store)
    nextId,             \* the store's id generator
    calls,              \* the async calls in flight, one per slot
    issued,             \* number of calls issued so far
    loaded,             \* a successful load has replaced the mirror
    out,                \* what the last completed call returned and toasted
    result,             \* what the assistant's executeAction returned
    processing,         \* useState<string | null> of the Assignments page
    peer,               \* the state of a second useRBAC instance
    answer,             \* what the last call of a derived query returned
    sending,            \* the assistant's handleSend, suspended at an await
    loading,            \* useState(true): the hook's loading flag
    messages,           \* useState<Message[]> of the assistant page
    input,              \* useState('') of the assistant page: the text typed
    reply               \* the edge function's run for the message sent

mirror == <<permissions, roles, rolePermissions>>
store == <<dbPermissions, dbRoles, dbRolePermissions, nextId>>
\* what lives beside the first hook instance and the assistant
chat == <<messages, input, reply>>
views == <<processing, peer, answer, sending, chat>>
vars == <<permissions, roles, rolePermissions, dbPermissions, dbRoles,
          dbRolePermissions, nextId, calls, issued, loaded, out, result,
          processing, peer, answer, sending, loading, messages, input, reply>>

\* ------------------------------------------------------------------ bounds
MaxCalls == 3       \* calls issued after the load that mounting fires
MaxRaced == 2       \* the same, where calls are not awaited

Names == {1, 2}     \* two names, 1 before 2 under localeCompare
Slots == {1, 2}     \* at most two calls are in flight together
NoId == 0

\* what the store may hold when the page is opened
SeedPermissions == {[id |-> 1, name |-> 2, created_at |-> 1]}
SeedRoles == {[id |-> 2, name |-> 1, created_at |-> 2]}
SeedRolePermissions == {[id |-> 3, role_id |-> 2, permission_id |-> 1]}
FirstNewId == 4

\* ----------------------------------------------------------------- helpers
Range(s) == {s[i] : i \in DOMAIN s}

Ids(rows) == {r.id : r \in rows}

RECURSIVE SeqsOf(_)
\* every ordering of a finite set of rows
SeqsOf(S) ==
    IF S = {} THEN {<<>>}
    ELSE UNION {{<<x>> \o t : t \in SeqsOf(S \ {x})} : x \in S}

IsSortedByName(s) ==
    \A i \in 1..(Len(s) - 1) : s[i].name <= s[i + 1].name

\* x placed behind every element that does not compare greater than it
InsertByName(s, x) ==
    LET before == SelectSeq(s, LAMBDA r : r.name <= x.name)
        after == SelectSeq(s, LAMBDA r : r.name > x.name)
    IN  before \o <<x>> \o after

RECURSIVE SortByName(_)
\* Array.prototype.sort((a, b) => a.name.localeCompare(b.name)): stable
SortByName(s) ==
    IF s = <<>> THEN <<>>
    ELSE InsertByName(SortByName(SubSeq(s, 1, Len(s) - 1)), s[Len(s)])

RECURSIVE MapReplace(_, _, _)
\* prev.map((p) => (p.id === id ? data : p))
MapReplace(s, id, data) ==
    IF s = <<>> THEN <<>>
    ELSE <<IF Head(s).id = id THEN data ELSE Head(s)>>
         \o MapReplace(Tail(s), id, data)

\* ---------------------------------------------------------- derived queries
\* the query written over the links: one result per Assignment, in their order
getPermissionsForRoleByLinks(roleId) ==
    LET links == SelectSeq(rolePermissions, LAMBDA rp : rp.role_id = roleId)
    IN  [k \in DOMAIN links |->
            CHOOSE p \in Range(permissions) \cup {[id |-> 0, name |-> 0, created_at |-> 0]} :
                \/ p.id = links[k].permission_id
                \/ /\ p.id = 0
                   /\ links[k].permission_id \notin Ids(Range(permissions))]

getPermissionsForRole(roleId) ==
    LET permissionIds ==
            {rolePermissions[i].permission_id :
                i \in {j \in DOMAIN rolePermissions :
                          rolePermissions[j].role_id = roleId}}
    IN  SelectSeq(permissions, LAMBDA p : p.id \in permissionIds)

getRolesForPermission(permissionId) ==
    LET roleIds ==
            {rolePermissions[i].role_id :
                i \in {j \in DOMAIN rolePermissions :
                          rolePermissions[j].permission_id = permissionId}}
    IN  SelectSeq(roles, LAMBDA r : r.id \in roleIds)

\* -------------------------------------------------------------- call records
Idle == [op |-> "idle"]
NoRow == [id |-> NoId, name |-> 0, created_at |-> 0]
NoLink == [id |-> NoId, role_id |-> NoId, permission_id |-> NoId]
Pending == [st |-> "sent", error |-> "none", data |-> <<>>]

\* a mutating call: one request, one response {data, error}
Call(op, a, b) ==
    [op |-> op, a |-> a, b |-> b, st |-> "sent", error |-> "none", data |-> NoRow]

\* a call on role_permissions: its response row is a link
LinkCall(op, r, p) ==
    [op |-> op, a |-> r, b |-> p, st |-> "sent", error |-> "none", data |-> NoLink]

\* fetchData: three requests under Promise.all
LoadCall ==
    [op |-> "load", permRes |-> Pending, roleRes |-> Pending, rpRes |-> Pending]

InFlight == {s \in Slots : calls[s].op # "idle"}

\* the slot a new call takes
FreeSlot(s) ==
    /\ calls[s].op = "idle"
    /\ \A t \in Slots : t < s => calls[t].op # "idle"

\* The ids a caller passes: the pages take them from the rows of the mirror
\* (the hook checks none of them); NoId is an id that matches no row anywhere.
PermissionIdsKnown == Ids(Range(permissions)) \cup {NoId}
RoleIdsKnown == Ids(Range(roles)) \cup {NoId}

Outcome(op, ret, id, toast) ==
    [op |-> op, ret |-> ret, id |-> id, toast |-> toast]

EmptyName == -2     \* "" and also an absent field

\* the names an AIResponse may carry; an absent one is EmptyName
NoNames == [name |-> EmptyName, role_name |-> EmptyName, permission_name |-> EmptyName]

\* {success, message} as executeAction returns it; name is the text the
\* message quotes, response the object it was returned for
Result(response, success, message, name) ==
    [response |-> response, success |-> success, message |-> message, name |-> name]

NoResult == Result(NoNames @@ [action |-> "none"], "none", "none", EmptyName)

\* no handleSend is running
NotSending == [st |-> "idle", roles |-> <<>>, permissions |-> <<>>]

\* a message of the chat: who wrote it, and the success mark an answer of
\* the assistant carries
Message(role, success) == [role |-> role, success |-> success]

\* the message the chat opens with
Greeting == Message("assistant", "none")

\* One run of the edge function: whether the API key is configured, what the
\* gateway answered, the content of the model's message, and the response
\* the function returns: its status, whether its body has an error field,
\* and the AIResponse of the body.
Reply(key, gateway, content, status, error, response) ==
    [key |-> key, gateway |-> gateway, content |-> content,
     status |-> status, error |-> error, response |-> response]

NoReply == Reply(TRUE, 0, <<>>, 0, FALSE, NoNames @@ [action |-> "none"])

\* the array a derived query returned, with the query and its argument
Answer(query, id, rows) == [query |-> query, id |-> id, rows |-> rows]

NoAnswer == Answer("none", NoId, <<>>)

\* -------------------------------------------------------------------- Init

Init ==
    /\ permissions = <<>>
    /\ roles = <<>>
    /\ rolePermissions = <<>>
    /\ \/ /\ dbPermissions = {}
          /\ dbRoles = {}
          /\ dbRolePermissions = {}
       \/ /\ dbPermissions = SeedPermissions
          /\ dbRoles = SeedRoles
          /\ dbRolePermissions \in {{}, SeedRolePermissions}
    /\ nextId = FirstNewId
    /\ calls = [s \in Slots |-> IF s = 1 THEN LoadCall ELSE Idle]
    /\ issued = 0
    /\ loaded = FALSE
    /\ out = Outcome("none", "none", NoId, "none")
    /\ result = NoResult
    /\ processing = NoId
    /\ peer = [permissions |-> <<>>, roles |-> <<>>, rolePermissions |-> <<>>,
               call |-> LoadCall]
    /\ answer = NoAnswer
    /\ sending = NotSending
    /\ loading = TRUE
    /\ messages = <<Greeting>>
    /\ input = EmptyName
    /\ reply = NoReply

\* ------------------------------------------------------------ issuing calls
\* the hook function is entered and its request sent
Request(s, c) ==
    /\ issued < MaxCalls
    /\ FreeSlot(s)
    /\ calls' = [calls EXCEPT ![s] = c]
    /\ issued' = issued + 1
    /\ UNCHANGED <<mirror, store, loaded, out>>

\* a call that the assistant or a form makes
Invoke(s, c) == Request(s, c) /\ UNCHANGED <<views, loading>>

\* a call made on the hook directly
Issue(s, c) == Invoke(s, c) /\ UNCHANGED result

\* fetchData up to its await: setLoading(true), then the three reads
CallFetchData(s) ==
    /\ Request(s, LoadCall)
    /\ loading' = TRUE
    /\ UNCHANGED <<result, views>>

\* createPermission with an optimistic insert: a provisional row is shown
\* before the store has answered
CallCreatePermissionOptimistic(s) ==
    \E n \in Names :
        /\ issued < MaxCalls
        /\ FreeSlot(s)
        /\ calls' = [calls EXCEPT ![s] = Call("createPermission", n, 0)]
        /\ issued' = issued + 1
        /\ permissions' = SortByName(Append(permissions, [id |-> NoId, name |-> n, created_at |-> 0]))
        /\ UNCHANGED <<roles, rolePermissions, store, loaded, out, result, views, loading>>

CallCreatePermission(s) ==
    \E n \in Names : Issue(s, Call("createPermission", n, 0))

CallUpdatePermission(s) ==
    \E id \in PermissionIdsKnown, n \in Names :
        Issue(s, Call("updatePermission", id, n))

CallDeletePermission(s) ==
    \E id \in PermissionIdsKnown : Issue(s, Call("deletePermission", id, 0))

CallCreateRole(s) ==
    \E n \in Names : Issue(s, Call("createRole", n, 0))

CallUpdateRole(s) ==
    \E id \in RoleIdsKnown, n \in Names : Issue(s, Call("updateRole", id, n))

CallDeleteRole(s) ==
    \E id \in RoleIdsKnown : Issue(s, Call("deleteRole", id, 0))

CallAssignPermissionToRole(s) ==
    \E r \in RoleIdsKnown, p \in PermissionIdsKnown :
        Issue(s, LinkCall("assignPermissionToRole", r, p))

CallRemovePermissionFromRole(s) ==
    \E r \in RoleIdsKnown, p \in PermissionIdsKnown :
        Issue(s, LinkCall("removePermissionFromRole", r, p))

\* ------------------------------------------------------------- remote store
\* The store executes one request atomically and answers {data, error}.
\* A request that is answered with an error has changed no table.
Sent(s, op) == calls[s].op = op /\ calls[s].st = "sent"

Respond(s, error, data) ==
    calls' = [calls EXCEPT ![s].st = "done", ![s].error = error, ![s].data = data]

\* .insert({name, description}).select().single()
InsertRow(s, op, table) ==
    /\ Sent(s, op)
    /\ \/ LET row == [id |-> nextId, name |-> calls[s].a, created_at |-> nextId]
          IN  /\ table' = table \cup {row}
              /\ nextId' = nextId + 1
              /\ Respond(s, "none", row)
       \/ /\ \E r \in table : r.name = calls[s].a
          /\ UNCHANGED <<table, nextId>>
          /\ Respond(s, "duplicate", NoRow)

\* .update({name, description}).eq('id', id).select().single()
UpdateRow(s, op, table) ==
    /\ Sent(s, op)
    /\ UNCHANGED nextId
    /\ LET id == calls[s].a
           row == [(CHOOSE r \in table : r.id = id) EXCEPT !.name = calls[s].b]
       IN  \/ /\ id \in Ids(table)
              /\ table' = {r \in table : r.id # id} \cup {row}
              /\ Respond(s, "none", row)
           \/ /\ id \in Ids(table)
              /\ \E r \in table : r.id # id /\ r.name = calls[s].b
              /\ UNCHANGED table
              /\ Respond(s, "duplicate", NoRow)
           \/ /\ id \notin Ids(table)          \* single() over no row
              /\ UNCHANGED table
              /\ Respond(s, "no rows", NoRow)

StoreInsertPermission(s) ==
    /\ InsertRow(s, "createPermission", dbPermissions)
    /\ UNCHANGED <<mirror, dbRoles, dbRolePermissions, issued, loaded, out, result, views, loading>>

StoreUpdatePermission(s) ==
    /\ UpdateRow(s, "updatePermission", dbPermissions)
    /\ UNCHANGED <<mirror, dbRoles, dbRolePermissions, issued, loaded, out, result, views, loading>>

\* .delete().eq('id', id), with ON DELETE CASCADE on role_permissions
StoreDeletePermission(s) ==
    /\ Sent(s, "deletePermission")
    /\ dbPermissions' = {r \in dbPermissions : r.id # calls[s].a}
    /\ dbRolePermissions' =
           {l \in dbRolePermissions : l.permission_id # calls[s].a}
    /\ Respond(s, "none", NoRow)
    /\ UNCHANGED <<mirror, dbRoles, nextId, issued, loaded, out, result, views, loading>>

StoreInsertRole(s) ==
    /\ InsertRow(s, "createRole", dbRoles)
    /\ UNCHANGED <<mirror, dbPermissions, dbRolePermissions, issued, loaded, out, result, views, loading>>

StoreUpdateRole(s) ==
    /\ UpdateRow(s, "updateRole", dbRoles)
    /\ UNCHANGED <<mirror, dbPermissions, dbRolePermissions, issued, loaded, out, result, views, loading>>

StoreDeleteRole(s) ==
    /\ Sent(s, "deleteRole")
    /\ dbRoles' = {r \in dbRoles : r.id # calls[s].a}
    /\ dbRolePermissions' = {l \in dbRolePermissions : l.role_id # calls[s].a}
    /\ Respond(s, "none", NoRow)
    /\ UNCHANGED <<mirror, dbPermissions, nextId, issued, loaded, out, result, views, loading>>

\* .insert({role_id, permission_id}).select().single()
StoreInsertRolePermission(s) ==
    /\ Sent(s, "assignPermissionToRole")
    /\ LET r == calls[s].a
           p == calls[s].b
           link == [id |-> nextId, role_id |-> r, permission_id |-> p]
       IN  \/ /\ \E l \in dbRolePermissions :
                     l.role_id = r /\ l.permission_id = p
              /\ UNCHANGED <<dbRolePermissions, nextId>>
              /\ Respond(s, "duplicate", NoLink)
           \/ /\ r \notin Ids(dbRoles) \/ p \notin Ids(dbPermissions)
              /\ UNCHANGED <<dbRolePermissions, nextId>>
              /\ Respond(s, "foreign key", NoLink)
           \/ /\ r \in Ids(dbRoles) /\ p \in Ids(dbPermissions)
              /\ \A l \in dbRolePermissions :
                     ~(l.role_id = r /\ l.permission_id = p)
              /\ dbRolePermissions' = dbRolePermissions \cup {link}
              /\ nextId' = nextId + 1
              /\ Respond(s, "none", link)
    /\ UNCHANGED <<mirror, dbPermissions, dbRoles, issued, loaded, out, result, views, loading>>

\* .delete().eq('role_id', roleId).eq('permission_id', permissionId)
StoreDeleteRolePermission(s) ==
    /\ Sent(s, "removePermissionFromRole")
    /\ dbRolePermissions' =
           {l \in dbRolePermissions :
               ~(l.role_id = calls[s].a /\ l.permission_id = calls[s].b)}
    /\ Respond(s, "none", NoLink)
    /\ UNCHANGED <<mirror, dbPermissions, dbRoles, nextId, issued, loaded, out, result, views, loading>>

\* a write that does not reach the store, or that the store refuses
StoreFailsWrite(s) ==
    /\ calls[s].op \notin {"idle", "load"}
    /\ calls[s].st = "sent"
    /\ calls' = [calls EXCEPT ![s].st = "done", ![s].error = "network"]
    /\ UNCHANGED <<mirror, store, issued, loaded, out, result, views, loading>>

Answered(error, data) == [st |-> "done", error |-> error, data |-> data]

\* .from('permissions').select('*').order('name')
StoreSelectPermissions(s) ==
    /\ calls[s].op = "load" /\ calls[s].permRes.st = "sent"
    /\ \E rows \in SeqsOf(dbPermissions) :
          /\ IsSortedByName(rows)
          /\ calls' = [calls EXCEPT ![s].permRes = Answered("none", rows)]
    /\ UNCHANGED <<mirror, store, issued, loaded, out, result, views, loading>>

\* .from('roles').select('*').order('name')
StoreSelectRoles(s) ==
    /\ calls[s].op = "load" /\ calls[s].roleRes.st = "sent"
    /\ \E rows \in SeqsOf(dbRoles) :
          /\ IsSortedByName(rows)
          /\ calls' = [calls EXCEPT ![s].roleRes = Answered("none", rows)]
    /\ UNCHANGED <<mirror, store, issued, loaded, out, result, views, loading>>

\* .from('role_permissions').select('*'): in no promised order
StoreSelectRolePermissions(s) ==
    /\ calls[s].op = "load" /\ calls[s].rpRes.st = "sent"
    /\ \E rows \in SeqsOf(dbRolePermissions) :
          calls' = [calls EXCEPT ![s].rpRes = Answered("none", rows)]
    /\ UNCHANGED <<mirror, store, issued, loaded, out, result, views, loading>>

StoreFailsRead(s) ==
    /\ calls[s].op = "load"
    /\ \/ /\ calls[s].permRes.st = "sent"
          /\ calls' = [calls EXCEPT ![s].permRes = Answered("network", <<>>)]
       \/ /\ calls[s].roleRes.st = "sent"
          /\ calls' = [calls EXCEPT ![s].roleRes = Answered("network", <<>>)]
       \/ /\ calls[s].rpRes.st = "sent"
          /\ calls' = [calls EXCEPT ![s].rpRes = Answered("network", <<>>)]
    /\ UNCHANGED <<mirror, store, issued, loaded, out, result, views, loading>>

\* ------------------------------------------------- reconciliation (setState)
\* The updater functions handed to setPermissions / setRoles /
\* setRolePermissions: each is applied to the mirror as it is when the
\* response is handled.

\* the new row appended and the array left unsorted
AddUnsorted(prev, data) == Append(prev, data)

\* the updater that forgets the spread: () => [data]
AddSortedAlone(prev, data) == <<data>>

\* (prev) => [...prev, data].sort(byName)
AddSorted(prev, data) == SortByName(Append(prev, data))

\* the update that re-sorts and forgets to replace the row
ReplaceSortedNoMap(prev, id, data) == SortByName(prev)

\* the update whose map puts the response row in the place of every row
ReplaceSortedEvery(prev, id, data) == SortByName([i \in DOMAIN prev |-> data])

\* (prev) => prev.map((p) => (p.id === id ? data : p)).sort(byName)
ReplaceSorted(prev, id, data) == SortByName(MapReplace(prev, id, data))

\* (prev) => prev.filter((p) => p.id !== id)
RemoveById(prev, id) == SelectSeq(prev, LAMBDA p : p.id # id)

\* the filter written against the wrong column
RemoveLinksOfPermissionByRole(prev, id) ==
    SelectSeq(prev, LAMBDA rp : rp.role_id # id)

\* (prev) => prev.filter((rp) => rp.permission_id !== id)
RemoveLinksOfPermission(prev, id) ==
    SelectSeq(prev, LAMBDA rp : rp.permission_id # id)

\* deleteRole without its cascade: the links of the role stay in the mirror
RemoveLinksOfRoleKept(prev, id) == prev

\* (prev) => prev.filter((rp) => rp.role_id !== id)
RemoveLinksOfRole(prev, id) == SelectSeq(prev, LAMBDA rp : rp.role_id # id)

\* the updater that forgets the spread: () => [data]
AddLinkReplacing(prev, data) == <<data>>

\* (prev) => [...prev, data]
AddLink(prev, data) == Append(prev, data)

\* the filter that forgets the permission: every link of the role goes
RemoveLinkOfWholeRole(prev, roleId, permissionId) ==
    SelectSeq(prev, LAMBDA rp : rp.role_id # roleId)

\* the removal done by prev.splice(prev.findIndex(...)): with no count given
\* everything from the index on goes, and an index of -1 takes the last
RemoveLinkSplicedOpen(prev, roleId, permissionId) ==
    LET hits == {i \in DOMAIN prev :
                    prev[i].role_id = roleId /\ prev[i].permission_id = permissionId}
        index == IF hits = {} THEN Len(prev)
                 ELSE CHOOSE i \in hits : \A j \in hits : i <= j
    IN  SubSeq(prev, 1, index - 1)

\* (prev) => prev.filter((rp) => !(rp.role_id === roleId && rp.permission_id === permissionId))
RemoveLink(prev, roleId, permissionId) ==
    SelectSeq(prev, LAMBDA rp :
        ~(rp.role_id = roleId /\ rp.permission_id = permissionId))

\* the test written with the wrong case: includes('Duplicate')
MessageIncludesDuplicateCased(error) == error = "Duplicate"

\* error.message.includes('duplicate')
MessageIncludesDuplicate(error) == error = "duplicate"

\* ------------------------------------------------------ handling the response
Done(s, op) == calls[s].op = op /\ calls[s].st = "done"

\* the async function returns: its slot is free again
Return(s, ret, id, toast) ==
    /\ out' = Outcome(calls[s].op, ret, id, toast)
    /\ calls' = [calls EXCEPT ![s] = Idle]
    /\ UNCHANGED <<store, issued, loaded, result, views, loading>>

\* createPermission sending its insert again when the request did not get through
createPermissionRetrying(s) ==
    /\ Done(s, "createPermission")
    /\ IF calls[s].error = "network"
       THEN /\ calls' = [calls EXCEPT ![s].st = "sent", ![s].error = "none"]
            /\ UNCHANGED <<mirror, store, issued, loaded, out, result, views, loading>>
       ELSE IF calls[s].error # "none"
       THEN /\ UNCHANGED mirror
            /\ Return(s, "null", NoId, "Error creating permission")
       ELSE /\ permissions' = AddSorted(permissions, calls[s].data)
            /\ UNCHANGED <<roles, rolePermissions>>
            /\ Return(s, "data", calls[s].data.id, "Permission created")

createPermission(s) ==
    /\ Done(s, "createPermission")
    /\ IF calls[s].error # "none"
       THEN /\ UNCHANGED mirror
            /\ Return(s, "null", NoId, "Error creating permission")
       ELSE /\ permissions' = AddSorted(permissions, calls[s].data)
            /\ UNCHANGED <<roles, rolePermissions>>
            /\ Return(s, "data", calls[s].data.id, "Permission created")

updatePermission(s) ==
    /\ Done(s, "updatePermission")
    /\ IF calls[s].error # "none"
       THEN /\ UNCHANGED mirror
            /\ Return(s, "null", NoId, "Error updating permission")
       ELSE /\ permissions' = ReplaceSorted(permissions, calls[s].a, calls[s].data)
            /\ UNCHANGED <<roles, rolePermissions>>
            /\ Return(s, "data", calls[s].data.id, "Permission updated")

\* deletePermission whose two setState calls are not committed together: the
\* render after the first shows the permission gone and its links in place
deletePermissionUnbatched(s) ==
    /\ Done(s, "deletePermission")
    /\ IF calls[s].error # "none"
       THEN /\ UNCHANGED mirror
            /\ Return(s, "false", NoId, "Error deleting permission")
       ELSE /\ permissions' = RemoveById(permissions, calls[s].a)
            /\ UNCHANGED <<roles, rolePermissions>>
            /\ Return(s, "true", NoId, "Permission deleted")

deletePermission(s) ==
    /\ Done(s, "deletePermission")
    /\ IF calls[s].error # "none"
       THEN /\ UNCHANGED mirror
            /\ Return(s, "false", NoId, "Error deleting permission")
       ELSE /\ permissions' = RemoveById(permissions, calls[s].a)
            /\ rolePermissions' = RemoveLinksOfPermission(rolePermissions, calls[s].a)
            /\ UNCHANGED roles
            /\ Return(s, "true", NoId, "Permission deleted")

createRole(s) ==
    /\ Done(s, "createRole")
    /\ IF calls[s].error # "none"
       THEN /\ UNCHANGED mirror
            /\ Return(s, "null", NoId, "Error creating role")
       ELSE /\ roles' = AddSorted(roles, calls[s].data)
            /\ UNCHANGED <<permissions, rolePermissions>>
            /\ Return(s, "data", calls[s].data.id, "Role created")

updateRole(s) ==
    /\ Done(s, "updateRole")
    /\ IF calls[s].error # "none"
       THEN /\ UNCHANGED mirror
            /\ Return(s, "null", NoId, "Error updating role")
       ELSE /\ roles' = ReplaceSorted(roles, calls[s].a, calls[s].data)
            /\ UNCHANGED <<permissions, rolePermissions>>
            /\ Return(s, "data", calls[s].data.id, "Role updated")

\* deleteRole without the early return of its error branch
deleteRoleNoReturn(s) ==
    /\ Done(s, "deleteRole")
    /\ roles' = RemoveById(roles, calls[s].a)
    /\ rolePermissions' = RemoveLinksOfRole(rolePermissions, calls[s].a)
    /\ UNCHANGED permissions
    /\ IF calls[s].error # "none"
       THEN Return(s, "false", NoId, "Error deleting role")
       ELSE Return(s, "true", NoId, "Role deleted")

deleteRole(s) ==
    /\ Done(s, "deleteRole")
    /\ IF calls[s].error # "none"
       THEN /\ UNCHANGED mirror
            /\ Return(s, "false", NoId, "Error deleting role")
       ELSE /\ roles' = RemoveById(roles, calls[s].a)
            /\ rolePermissions' = RemoveLinksOfRole(rolePermissions, calls[s].a)
            /\ UNCHANGED permissions
            /\ Return(s, "true", NoId, "Role deleted")

assignPermissionToRole(s) ==
    /\ Done(s, "assignPermissionToRole")
    /\ IF calls[s].error # "none"
       THEN /\ UNCHANGED mirror
            /\ IF MessageIncludesDuplicate(calls[s].error)
               THEN Return(s, "null", NoId, "Already assigned")
               ELSE Return(s, "null", NoId, "Error assigning permission")
       ELSE /\ rolePermissions' = AddLink(rolePermissions, calls[s].data)
            /\ UNCHANGED <<permissions, roles>>
            /\ Return(s, "data", calls[s].data.id, "Permission assigned")

removePermissionFromRole(s) ==
    /\ Done(s, "removePermissionFromRole")
    /\ IF calls[s].error # "none"
       THEN /\ UNCHANGED mirror
            /\ Return(s, "false", NoId, "Error removing permission")
       ELSE /\ rolePermissions' =
                   RemoveLink(rolePermissions, calls[s].a, calls[s].b)
            /\ UNCHANGED <<permissions, roles>>
            /\ Return(s, "true", NoId, "Permission removed")

\* Promise.all has settled: all three reads have answered
AllSettled(s) ==
    /\ calls[s].op = "load"
    /\ calls[s].permRes.st = "done"
    /\ calls[s].roleRes.st = "done"
    /\ calls[s].rpRes.st = "done"

AnyReadFailed(s) ==
    \/ calls[s].permRes.error # "none"
    \/ calls[s].roleRes.error # "none"
    \/ calls[s].rpRes.error # "none"

\* fetchData installing each result as soon as it is seen to be good
fetchDataPartial(s) ==
    /\ AllSettled(s)
    /\ calls' = [calls EXCEPT ![s] = Idle]
    /\ UNCHANGED <<store, issued, result, views>>
    /\ loading' = FALSE
    /\ permissions' = IF calls[s].permRes.error = "none"
                      THEN calls[s].permRes.data ELSE permissions
    /\ roles' = IF calls[s].permRes.error = "none" /\ calls[s].roleRes.error = "none"
                THEN calls[s].roleRes.data ELSE roles
    /\ rolePermissions' = IF AnyReadFailed(s) THEN rolePermissions
                          ELSE calls[s].rpRes.data
    /\ loaded' = (loaded \/ ~AnyReadFailed(s))
    /\ out' = Outcome("load", "undefined", NoId,
                      IF AnyReadFailed(s) THEN "Error loading data" ELSE "none")

\* the rows of prev that no row of data replaces, followed by data
KeepUnread(prev, data) ==
    SelectSeq(prev, LAMBDA x : x.id \notin Ids(Range(data))) \o data

\* fetchData refreshing the rows it read and keeping the others
fetchDataKeepingUnread(s) ==
    /\ AllSettled(s)
    /\ calls' = [calls EXCEPT ![s] = Idle]
    /\ UNCHANGED <<store, issued, result, views>>
    /\ loading' = FALSE
    /\ IF AnyReadFailed(s)
       THEN /\ UNCHANGED <<mirror, loaded>>
            /\ out' = Outcome("load", "undefined", NoId, "Error loading data")
       ELSE /\ permissions' = SortByName(KeepUnread(permissions, calls[s].permRes.data))
            /\ roles' = SortByName(KeepUnread(roles, calls[s].roleRes.data))
            /\ rolePermissions' = KeepUnread(rolePermissions, calls[s].rpRes.data)
            /\ loaded' = TRUE
            /\ out' = Outcome("load", "undefined", NoId, "none")

\* fetchData adding what it read to what the mirror already holds
fetchDataMerging(s) ==
    /\ AllSettled(s)
    /\ calls' = [calls EXCEPT ![s] = Idle]
    /\ UNCHANGED <<store, issued, result, views>>
    /\ loading' = FALSE
    /\ IF AnyReadFailed(s)
       THEN /\ UNCHANGED <<mirror, loaded>>
            /\ out' = Outcome("load", "undefined", NoId, "Error loading data")
       ELSE /\ permissions' = SortByName(permissions \o calls[s].permRes.data)
            /\ roles' = SortByName(roles \o calls[s].roleRes.data)
            /\ rolePermissions' = rolePermissions \o calls[s].rpRes.data
            /\ loaded' = TRUE
            /\ out' = Outcome("load", "undefined", NoId, "none")

fetchData(s) ==
    /\ AllSettled(s)
    /\ calls' = [calls EXCEPT ![s] = Idle]
    /\ UNCHANGED <<store, issued, result, views>>
    /\ loading' = FALSE
    /\ IF AnyReadFailed(s)
       THEN /\ UNCHANGED <<mirror, loaded>>
            /\ out' = Outcome("load", "undefined", NoId, "Error loading data")
       ELSE /\ permissions' = calls[s].permRes.data
            /\ roles' = calls[s].roleRes.data
            /\ rolePermissions' = calls[s].rpRes.data
            /\ loaded' = TRUE
            /\ out' = Outcome("load", "undefined", NoId, "none")

\* -------------------------------------------------------------------- Next
CallAny(s) ==
    \/ CallFetchData(s)
    \/ CallCreatePermission(s)
    \/ CallUpdatePermission(s)
    \/ CallDeletePermission(s)
    \/ CallCreateRole(s)
    \/ CallUpdateRole(s)
    \/ CallDeleteRole(s)
    \/ CallAssignPermissionToRole(s)
    \/ CallRemovePermissionFromRole(s)

StoreAny(s) ==
    \/ StoreInsertPermission(s)
    \/ StoreUpdatePermission(s)
    \/ StoreDeletePermission(s)
    \/ StoreInsertRole(s)
    \/ StoreUpdateRole(s)
    \/ StoreDeleteRole(s)
    \/ StoreInsertRolePermission(s)
    \/ StoreDeleteRolePermission(s)
    \/ StoreFailsWrite(s)
    \/ StoreSelectPermissions(s)
    \/ StoreSelectRoles(s)
    \/ StoreSelectRolePermissions(s)
    \/ StoreFailsRead(s)

HandleAny(s) ==
    \/ createPermission(s)
    \/ updatePermission(s)
    \/ deletePermission(s)
    \/ createRole(s)
    \/ updateRole(s)
    \/ deleteRole(s)
    \/ assignPermissionToRole(s)
    \/ removePermissionFromRole(s)
    \/ fetchData(s)

\* calls may be fired without awaiting the previous one
Next ==
    \E s \in Slots : (issued < MaxRaced /\ CallAny(s)) \/ StoreAny(s) \/ HandleAny(s)

Spec == Init /\ [][Next]_vars

\* every call is awaited before the next is issued
Awaited == InFlight = {}

SeqNext ==
    \E s \in Slots : (Awaited /\ CallAny(s)) \/ StoreAny(s) \/ HandleAny(s)

SeqSpec == Init /\ [][SeqNext]_vars

\* ------------------------------------------------------------------ pages
\* The pages that drive the hook: the assistant's dispatcher (executeAction)
\* and the forms of the Permissions and Roles pages.  Here names are typed
\* or generated text: besides the letters 1 and 2 (2 is 1 in upper case)
\* and 3, a name may be empty or blank.  The codes keep the order of
\* localeCompare: "" < " " < 1 < 2 < 3.
MaxPaged == 1       \* calls the pages make after the load that mounting fires

BlankName == -1     \* " ": white space only
GivenNames == {EmptyName, BlankName, 1, 2, 3}

\* String.prototype.toLowerCase
toLowerCase(n) == IF n = 2 THEN 1 ELSE n

\* String.prototype.trim
trim(n) == IF n = BlankName THEN EmptyName ELSE n

\* !x for a string that may be absent
Falsy(n) == n = EmptyName

\* roles.find(r => r.name.toLowerCase() === name.toLowerCase()); NoRow stands
\* for undefined
FindByName(rows, n) ==
    LET hits == SelectSeq(rows, LAMBDA r : toLowerCase(r.name) = toLowerCase(n))
    IN  IF hits = <<>> THEN NoRow ELSE hits[1]

\* the AIResponse objects the dispatcher is handed
Responses ==
    {[NoNames EXCEPT !.name = n] @@ [action |-> a] :
        a \in {"create_permission", "create_role"}, n \in GivenNames}
    \cup {[NoNames EXCEPT !.role_name = r, !.permission_name = p] @@ [action |-> a] :
        a \in {"assign_permission", "remove_permission"},
        r \in GivenNames, p \in GivenNames}
    \cup {NoNames @@ [action |-> a] : a \in {"info", "error", "other"}}

\* executeAction is suspended at the await of a hook operation
Awaiting(response) == Result(response, "awaiting", "none", EmptyName)

\* return {success: false, message} before any hook operation is called
Refuse(response, message, name) ==
    /\ result' = Result(response, "false", message, name)
    /\ UNCHANGED <<mirror, store, calls, issued, loaded, out, views, loading>>

\* the create cases without the test of data.name
ExecuteCreateUnchecked(s, response, op, required) ==
    /\ Invoke(s, Call(op, response.name, 0))
    /\ result' = Awaiting(response)

\* case 'create_permission' / case 'create_role'
ExecuteCreate(s, response, op, required) ==
    IF Falsy(response.name)
    THEN Refuse(response, required, EmptyName)
    ELSE /\ Invoke(s, Call(op, response.name, 0))
         /\ result' = Awaiting(response)

\* The roles and permissions executeAction reads are constants of the render
\* that created it: while handleSend is suspended they are those of the
\* render in which the message was sent, otherwise those of the mirror.
Seen == IF sending.st = "idle"
        THEN [roles |-> roles, permissions |-> permissions]
        ELSE sending

\* the link cases without the test of the permission: an id of undefined is sent
ExecuteLinkNoPermissionCheck(s, response, op) ==
    LET role == FindByName(Seen.roles, response.role_name)
        permission == FindByName(Seen.permissions, response.permission_name)
    IN  IF Falsy(response.role_name) \/ Falsy(response.permission_name)
        THEN Refuse(response, "Both role name and permission name are required",
                    EmptyName)
        ELSE IF role = NoRow
        THEN Refuse(response, "Role not found", response.role_name)
        ELSE /\ Invoke(s, LinkCall(op, role.id, permission.id))
             /\ result' = Awaiting(response)

\* case 'assign_permission' / case 'remove_permission'
ExecuteLink(s, response, op) ==
    LET role == FindByName(Seen.roles, response.role_name)
        permission == FindByName(Seen.permissions, response.permission_name)
    IN  IF Falsy(response.role_name) \/ Falsy(response.permission_name)
        THEN Refuse(response, "Both role name and permission name are required",
                    EmptyName)
        ELSE IF role = NoRow
        THEN Refuse(response, "Role not found", response.role_name)
        ELSE IF permission = NoRow
        THEN Refuse(response, "Permission not found", response.permission_name)
        ELSE /\ Invoke(s, LinkCall(op, role.id, permission.id))
             /\ result' = Awaiting(response)

\* one command at a time (the processing flag of handleSend)
NotProcessing == result.success # "awaiting"

\* executeAction up to its await, or to its return where it awaits nothing
executeAction(s) ==
    /\ NotProcessing
    /\ \E response \in Responses :
          CASE response.action = "create_permission" ->
                  ExecuteCreate(s, response, "createPermission",
                                "Permission name is required")
            [] response.action = "create_role" ->
                  ExecuteCreate(s, response, "createRole", "Role name is required")
            [] response.action = "assign_permission" ->
                  ExecuteLink(s, response, "assignPermissionToRole")
            [] response.action = "remove_permission" ->
                  ExecuteLink(s, response, "removePermissionFromRole")
            [] OTHER ->
                  /\ result' = Result(response, "true", "response.message", EmptyName)
                  /\ UNCHANGED <<mirror, store, calls, issued, loaded, out, views, loading>>

\* executeAction after its await: the hook operation has returned
executeActionResumed ==
    /\ result.success = "awaiting"
    /\ InFlight = {}
    /\ result' = IF out.ret = "thrown"
                 THEN Result(result.response, "false", "An unexpected error occurred",
                             EmptyName)
                 ELSE IF out.ret \in {"null", "false"}
                 THEN Result(result.response, "false", "Failed", EmptyName)
                 ELSE Result(result.response, "true", "successfully",
                             result.response.name)
    /\ UNCHANGED <<mirror, store, calls, issued, loaded, out, views, loading>>

\* Permissions.handleSubmit: the form's name is trimmed; a selected
\* permission makes it an update
PermissionsHandleSubmit(s) ==
    \E name \in GivenNames, selected \in PermissionIdsKnown :
        /\ ~Falsy(trim(name))
        /\ IF selected # NoId
           THEN Invoke(s, Call("updatePermission", selected, trim(name)))
           ELSE Invoke(s, Call("createPermission", trim(name), 0))
        /\ UNCHANGED result

\* Permissions.handleDelete
PermissionsHandleDelete(s) ==
    \E selected \in Ids(Range(permissions)) :
        /\ Invoke(s, Call("deletePermission", selected, 0))
        /\ UNCHANGED result

\* Roles.handleSubmit
RolesHandleSubmit(s) ==
    \E name \in GivenNames, selected \in RoleIdsKnown :
        /\ ~Falsy(trim(name))
        /\ IF selected # NoId
           THEN Invoke(s, Call("updateRole", selected, trim(name)))
           ELSE Invoke(s, Call("createRole", trim(name), 0))
        /\ UNCHANGED result

\* Roles.handleDelete
RolesHandleDelete(s) ==
    \E selected \in Ids(Range(roles)) :
        /\ Invoke(s, Call("deleteRole", selected, 0))
        /\ UNCHANGED result

PageAny(s) ==
    \/ executeAction(s)
    \/ PermissionsHandleSubmit(s)
    \/ PermissionsHandleDelete(s)
    \/ RolesHandleSubmit(s)
    \/ RolesHandleDelete(s)

\* the pages make one call at a time and wait for it
PageNext ==
    \/ \E s \in Slots :
          \/ Awaited /\ NotProcessing /\ issued < MaxPaged /\ PageAny(s)
          \/ StoreAny(s)
          \/ HandleAny(s)
    \/ executeActionResumed

PageSpec == Init /\ [][PageNext]_vars

\* ------------------------------------------------------ overlapping adds
\* Creates and assigns fired without awaiting one another, on a store that
\* is empty or holds one role and two permissions not yet assigned.
MaxOverlapped == 2  \* creates and assigns issued

SecondPermission == [id |-> 3, name |-> 1, created_at |-> 3]

OverlapInit ==
    /\ permissions = <<>>
    /\ roles = <<>>
    /\ rolePermissions = <<>>
    /\ \/ /\ dbPermissions = {}
          /\ dbRoles = {}
       \/ /\ dbPermissions = SeedPermissions \cup {SecondPermission}
          /\ dbRoles = SeedRoles
    /\ dbRolePermissions = {}
    /\ nextId = FirstNewId
    /\ calls = [s \in Slots |-> IF s = 1 THEN LoadCall ELSE Idle]
    /\ issued = 0
    /\ loaded = FALSE
    /\ out = Outcome("none", "none", NoId, "none")
    /\ result = NoResult
    /\ processing = NoId
    /\ peer = [permissions |-> <<>>, roles |-> <<>>, rolePermissions |-> <<>>,
               call |-> LoadCall]
    /\ answer = NoAnswer
    /\ sending = NotSending
    /\ loading = TRUE
    /\ messages = <<Greeting>>
    /\ input = EmptyName
    /\ reply = NoReply

OverlapNext ==
    \E s \in Slots :
        \/ issued < MaxOverlapped /\ CallCreatePermission(s)
        \/ issued < MaxOverlapped /\ CallCreateRole(s)
        \/ issued < MaxOverlapped /\ CallAssignPermissionToRole(s)
        \/ StoreInsertPermission(s)
        \/ StoreInsertRole(s)
        \/ StoreInsertRolePermission(s)
        \/ StoreFailsWrite(s)
        \/ StoreSelectPermissions(s)
        \/ StoreSelectRoles(s)
        \/ StoreSelectRolePermissions(s)
        \/ StoreFailsRead(s)
        \/ createPermission(s)
        \/ createRole(s)
        \/ assignPermissionToRole(s)
        \/ fetchData(s)

OverlapSpec == OverlapInit /\ [][OverlapNext]_vars

\* ---------------------------------------------------------- the assistant
\* handleSend: the message goes to the edge function, and executeAction is
\* called with what it answers.  The page does not wait for the load that
\* mounting fired before it takes a message.
MaxSent == 1        \* hook calls the assistant makes

MaxMessages == 3    \* length of the chat from which nothing more is sent

\* what the input may hold: nothing, white space, a command
Inputs == {EmptyName, BlankName, 1}

\* onChange of the input, which is disabled while a message is processed
setInput ==
    /\ sending.st = "idle"
    /\ \E text \in Inputs : input' = text /\ text # input
    /\ UNCHANGED <<mirror, store, calls, issued, loaded, out, result, processing,
                   peer, answer, sending, loading, messages, reply>>

\* The content of the model's message, as the characters that matter to the
\* function: braces, "k" for text that is well-formed between braces, "e"
\* for such text with an error member, "x" for any other text.
NoContent == <<"undefined">>      \* choices?.[0]?.message?.content is undefined
Contents ==
    {NoContent, <<>>, <<"x">>, <<"}", "x", "{">>, <<"{", "x">>,
     <<"{", "x", "}">>, <<"{", "}">>, <<"{", "k", "}">>, <<"{", "e", "}">>,
     <<"x", "{", "k", "}", "x">>, <<"{", "k", "}", "}">>}

Positions(text, ch) == {i \in DOMAIN text : text[i] = ch}
Least(S) == CHOOSE i \in S : \A j \in S : i <= j
Greatest(S) == CHOOSE i \in S : \A j \in S : j <= i

\* content.match(/\{[\s\S]*\}/)[0]: from the first { to the last } behind
\* it; <<>> stands for no match
JsonMatch(content) ==
    LET opens == Positions(content, "{")
        closes == Positions(content, "}")
    IN  IF opens # {} /\ closes # {} /\ Least(opens) < Greatest(closes)
        THEN SubSeq(content, Least(opens), Greatest(closes))
        ELSE <<>>

\* JSON.parse does not throw
JsonParses(text) == text \in {<<"{", "}">>, <<"{", "k", "}">>, <<"{", "e", "}">>}

\* the objects the model writes when it follows the response format
Objects == {response \in Responses : response.action # "error"}

InfoResponse == NoNames @@ [action |-> "info"]
ErrorResponse == NoNames @@ [action |-> "error"]

\* the response without the inner try and catch: what the parsing throws
\* goes to the outer catch
parsedResponseUncaught(content, object) ==
    IF content = NoContent
          \/ (JsonMatch(content) # <<>> /\ ~JsonParses(JsonMatch(content)))
    THEN Reply(TRUE, 200, content, 500, TRUE, ErrorResponse)
    ELSE IF JsonMatch(content) = <<>>
    THEN Reply(TRUE, 200, content, 200, FALSE, InfoResponse)
    ELSE IF JsonMatch(content) = <<"{", "k", "}">>
    THEN Reply(TRUE, 200, content, 200, FALSE, object)
    ELSE IF JsonMatch(content) = <<"{", "e", "}">>
    THEN Reply(TRUE, 200, content, 200, TRUE, ErrorResponse)
    ELSE Reply(TRUE, 200, content, 200, FALSE, NoNames @@ [action |-> "other"])

\* serve behind the gateway's OK: parsedResponse and the response built from
\* it.  content.match throws on a content that is undefined, JSON.parse on
\* text that is not JSON; both are caught and answered with action "info"
\* and data null, as is a content without a match.
parsedResponse(content, object) ==
    IF content = NoContent \/ JsonMatch(content) = <<>>
          \/ ~JsonParses(JsonMatch(content))
    THEN Reply(TRUE, 200, content, 200, FALSE, InfoResponse)
    ELSE IF JsonMatch(content) = <<"{", "k", "}">>
    THEN Reply(TRUE, 200, content, 200, FALSE, object)
    ELSE IF JsonMatch(content) = <<"{", "e", "}">>
    THEN Reply(TRUE, 200, content, 200, TRUE, ErrorResponse)
    ELSE Reply(TRUE, 200, content, 200, FALSE, NoNames @@ [action |-> "other"])

\* what the gateway may answer: OK, rate limit, credits, another status; 0
\* is a fetch that rejects
Gateway == {200, 429, 402, 503, 0}

\* the edge function handles the message it was invoked with
serve ==
    /\ sending.st = "invoked"
    /\ reply = NoReply
    /\ \/ reply' = Reply(FALSE, 0, <<>>, 500, TRUE, ErrorResponse)
       \/ \E gateway \in Gateway \ {200} :
             reply' = IF gateway \in {429, 402}
                      THEN Reply(TRUE, gateway, <<>>, gateway, TRUE,
                                 NoNames @@ [action |-> "none"])
                      ELSE Reply(TRUE, gateway, <<>>, 500, TRUE, ErrorResponse)
       \/ \E content \in Contents :
             IF JsonMatch(content) = <<"{", "k", "}">>
             THEN \E object \in Objects : reply' = parsedResponse(content, object)
             ELSE reply' = parsedResponse(content, InfoResponse)
    /\ UNCHANGED <<mirror, store, calls, issued, loaded, out, result, processing,
                   peer, answer, sending, loading, messages, input>>

\* handleSend up to its await, without the tests of its first line
handleSendUnguarded ==
    /\ messages' = Append(messages, Message("user", "none"))
    /\ input' = EmptyName
    /\ sending' = [st |-> "invoked", roles |-> roles, permissions |-> permissions]
    /\ result' = Result(NoResult.response, "sending", "none", EmptyName)
    /\ reply' = NoReply
    /\ UNCHANGED <<mirror, store, calls, issued, loaded, out, processing, peer, answer, loading>>

\* handleSend up to its await of supabase.functions.invoke, or to its return
handleSend ==
    IF Falsy(trim(input)) \/ sending.st # "idle"
    THEN UNCHANGED vars
    ELSE /\ messages' = Append(messages, Message("user", "none"))
         /\ input' = EmptyName
         /\ sending' = [st |-> "invoked", roles |-> roles, permissions |-> permissions]
         /\ result' = Result(NoResult.response, "sending", "none", EmptyName)
         /\ UNCHANGED <<mirror, store, calls, issued, loaded, out, processing, peer,
                        answer, loading, reply>>

\* the edge function has answered with status 200 and a body without an
\* error field, and executeAction is called with the body
handleSendResumed(s) ==
    /\ result.success = "sending"
    /\ reply.status = 200 /\ ~reply.error
    /\ executeAction(s)
    /\ result'.response = reply.response

\* handleSend after a reply that is an error, with the message marked as one
\* of success
handleSendErrorUnmarked ==
    /\ result.success = "sending"
    /\ reply.status # 0
    /\ reply.status # 200 \/ reply.error
    /\ result' = Result(NoResult.response, "true", "aiResponse.error", EmptyName)
    /\ UNCHANGED <<mirror, store, calls, issued, loaded, out, views, loading>>

\* invoke answered with an error (a status other than 2xx makes it one), which
\* is thrown and caught, or the body it answered with carries an error field
handleSendError ==
    /\ result.success = "sending"
    /\ reply.status # 0
    /\ reply.status # 200 \/ reply.error
    /\ result' = Result(NoResult.response, "false",
                        IF reply.status # 200 THEN "Sorry, I encountered an error"
                        ELSE "aiResponse.error", EmptyName)
    /\ UNCHANGED <<mirror, store, calls, issued, loaded, out, views, loading>>

\* the assistant's message is appended; finally { setProcessing(false) }
handleSendFinally ==
    /\ sending.st = "invoked"
    /\ result.success \in {"true", "false"}
    /\ sending' = NotSending
    /\ messages' = Append(messages, Message("assistant", result.success))
    /\ reply' = NoReply
    /\ UNCHANGED <<mirror, store, calls, issued, loaded, out, result, processing,
                   peer, answer, loading, input>>

SendNext ==
    \/ issued < MaxSent /\ Len(messages) < MaxMessages /\ handleSend
    \/ setInput
    \/ serve
    \/ \E s \in Slots :
          \/ handleSendResumed(s)
          \/ StoreInsertPermission(s)
          \/ StoreInsertRole(s)
          \/ StoreInsertRolePermission(s)
          \/ StoreDeleteRolePermission(s)
          \/ StoreFailsWrite(s)
          \/ StoreSelectPermissions(s)
          \/ StoreSelectRoles(s)
          \/ StoreSelectRolePermissions(s)
          \/ StoreFailsRead(s)
          \/ createPermission(s)
          \/ createRole(s)
          \/ assignPermissionToRole(s)
          \/ removePermissionFromRole(s)
          \/ fetchData(s)
    \/ executeActionResumed
    \/ handleSendError
    \/ handleSendFinally

SendSpec == Init /\ [][SendNext]_vars

\* ------------------------------------------------------------ rendering
\* A component calls the derived queries while it renders, with the id of a
\* row it shows; here with any id.
MaxQueried == 1     \* calls issued between the queries

\* the query taking the Assignments it has answered from out of the array
CallGetPermissionsForRoleSplicing ==
    \E roleId \in 0..nextId :
        /\ answer' = Answer("getPermissionsForRole", roleId, getPermissionsForRole(roleId))
        /\ rolePermissions' = SelectSeq(rolePermissions, LAMBDA rp : rp.role_id # roleId)
        /\ UNCHANGED <<permissions, roles, store, calls, issued, loaded, out, result,
                       processing, peer, sending, loading, chat>>

CallGetPermissionsForRole ==
    \E roleId \in 0..nextId :
        /\ answer' = Answer("getPermissionsForRole", roleId, getPermissionsForRole(roleId))
        /\ UNCHANGED <<mirror, store, calls, issued, loaded, out, result,
                       processing, peer, sending, loading, chat>>

CallGetRolesForPermission ==
    \E permissionId \in 0..nextId :
        /\ answer' = Answer("getRolesForPermission", permissionId,
                            getRolesForPermission(permissionId))
        /\ UNCHANGED <<mirror, store, calls, issued, loaded, out, result,
                       processing, peer, sending, loading, chat>>

QueryNext ==
    \/ \E s \in Slots :
          \/ Awaited /\ issued < MaxQueried /\ CallAny(s)
          \/ StoreAny(s)
          \/ HandleAny(s)
    \/ CallGetPermissionsForRole
    \/ CallGetRolesForPermission

QuerySpec == Init /\ [][QueryNext]_vars

\* ------------------------------------------------------ a second instance
\* useRBAC() called once more, by another page or in another browser: it has
\* useState cells and a mount effect of its own and shares only the store.
\* Here the second instance loads, and loads again, between the calls of the
\* first.
MaxPeered == 2      \* calls the first instance issues after its load

PeerCollections == <<peer.permissions, peer.roles, peer.rolePermissions>>

PeerIdle == peer.call.op = "idle"

\* fetchData of the second instance is entered and its three reads sent
PeerCallFetchData ==
    /\ PeerIdle /\ Awaited
    /\ peer' = [peer EXCEPT !.call = LoadCall]
    /\ UNCHANGED <<mirror, store, calls, issued, loaded, out, result, processing, answer, sending, loading, chat>>

\* the store answers one of them
PeerRead(res, table, ordered) ==
    /\ peer.call.op = "load" /\ peer.call[res].st = "sent"
    /\ \E rows \in SeqsOf(table) :
          /\ ordered => IsSortedByName(rows)
          /\ peer' = [peer EXCEPT !.call[res] = Answered("none", rows)]
    /\ UNCHANGED <<mirror, store, calls, issued, loaded, out, result, processing, answer, sending, loading, chat>>

PeerSelectPermissions == PeerRead("permRes", dbPermissions, TRUE)

PeerSelectRoles == PeerRead("roleRes", dbRoles, TRUE)

PeerSelectRolePermissions == PeerRead("rpRes", dbRolePermissions, FALSE)

PeerFailsRead ==
    /\ peer.call.op = "load"
    /\ \E res \in {"permRes", "roleRes", "rpRes"} :
          /\ peer.call[res].st = "sent"
          /\ peer' = [peer EXCEPT !.call[res] = Answered("network", <<>>)]
    /\ UNCHANGED <<mirror, store, calls, issued, loaded, out, result, processing, answer, sending, loading, chat>>

PeerSettled ==
    /\ peer.call.op = "load"
    /\ \A res \in {"permRes", "roleRes", "rpRes"} : peer.call[res].st = "done"

PeerReadFailed ==
    \E res \in {"permRes", "roleRes", "rpRes"} : peer.call[res].error # "none"

\* the second instance adding what it read to what it holds
PeerFetchDataMerging ==
    /\ PeerSettled
    /\ peer' = IF PeerReadFailed THEN [peer EXCEPT !.call = Idle]
               ELSE [permissions |-> SortByName(peer.permissions \o peer.call.permRes.data),
                     roles |-> SortByName(peer.roles \o peer.call.roleRes.data),
                     rolePermissions |-> peer.rolePermissions \o peer.call.rpRes.data,
                     call |-> Idle]
    /\ UNCHANGED <<mirror, store, calls, issued, loaded, out, result, processing, answer, sending, loading, chat>>

\* the continuation of fetchData in the second instance
PeerFetchData ==
    /\ PeerSettled
    /\ peer' = IF PeerReadFailed THEN [peer EXCEPT !.call = Idle]
               ELSE [permissions |-> peer.call.permRes.data,
                     roles |-> peer.call.roleRes.data,
                     rolePermissions |-> peer.call.rpRes.data,
                     call |-> Idle]
    /\ UNCHANGED <<mirror, store, calls, issued, loaded, out, result, processing, answer, sending, loading, chat>>

PeerNext ==
    \/ \E s \in Slots :
          \/ Awaited /\ PeerIdle /\ issued < MaxPeered /\ CallAny(s)
          \/ StoreAny(s)
          \/ HandleAny(s)
    \/ PeerCallFetchData
    \/ PeerSelectPermissions
    \/ PeerSelectRoles
    \/ PeerSelectRolePermissions
    \/ PeerFailsRead
    \/ PeerFetchData

PeerSpec == Init /\ [][PeerNext]_vars

\* -------------------------------------------------------- assignment view
\* The Assignments page: a role is selected among the roles shown, and the
\* checkbox of a permission shown calls handleTogglePermission.  A click is
\* handled and the page rendered again before the next click is, so the
\* handler of a click sees the marker the click before it set.
MaxToggled == 3     \* toggles that go as far as a call

LinkOps == {"assignPermissionToRole", "removePermissionFromRole"}

\* the selectedRole state: one of the roles shown, or null (NoRow)
SelectableRoles == Range(roles) \cup {NoRow}

\* the body of handleTogglePermission without the test of rolePermissionIds
TogglePermissionAssigning(s, selectedRole, permissionId) ==
    /\ processing' = permissionId
    /\ Request(s, LinkCall("assignPermissionToRole", selectedRole.id, permissionId))
    /\ UNCHANGED <<result, peer, answer, sending, loading, chat>>

\* the body of handleTogglePermission behind its first line
TogglePermission(s, selectedRole, permissionId) ==
    /\ processing' = permissionId
    /\ IF permissionId \in Ids(Range(getPermissionsForRole(selectedRole.id)))
       THEN Request(s, LinkCall("removePermissionFromRole", selectedRole.id, permissionId))
       ELSE Request(s, LinkCall("assignPermissionToRole", selectedRole.id, permissionId))
    /\ UNCHANGED <<result, peer, answer, sending, loading, chat>>

\* handleTogglePermission without the test of the marker
handleTogglePermissionUnguarded(s) ==
    \E selectedRole \in SelectableRoles, permissionId \in Ids(Range(permissions)) :
        IF selectedRole = NoRow
        THEN UNCHANGED vars
        ELSE TogglePermission(s, selectedRole, permissionId)

\* handleTogglePermission up to its await, or to its return
handleTogglePermission(s) ==
    \E selectedRole \in SelectableRoles, permissionId \in Ids(Range(permissions)) :
        IF selectedRole = NoRow \/ processing # NoId
        THEN UNCHANGED vars
        ELSE TogglePermission(s, selectedRole, permissionId)

\* setProcessing(null) put behind the await instead of in a finally
handleTogglePermissionResumedNoFinally ==
    /\ processing # NoId
    /\ \A s \in Slots : calls[s].op \notin LinkOps
    /\ out.ret # "thrown"
    /\ processing' = NoId
    /\ UNCHANGED <<mirror, store, calls, issued, loaded, out, result, peer, answer, sending, loading, chat>>

\* finally { setProcessing(null) }: the awaited operation has returned
handleTogglePermissionResumed ==
    /\ processing # NoId
    /\ \A s \in Slots : calls[s].op \notin LinkOps
    /\ processing' = NoId
    /\ UNCHANGED <<mirror, store, calls, issued, loaded, out, result, peer, answer, sending, loading, chat>>

AssignNext ==
    \/ \E s \in Slots :
          \/ issued < MaxToggled /\ handleTogglePermission(s)
          \/ StoreInsertRolePermission(s)
          \/ StoreDeleteRolePermission(s)
          \/ StoreFailsWrite(s)
          \/ StoreSelectPermissions(s)
          \/ StoreSelectRoles(s)
          \/ StoreSelectRolePermissions(s)
          \/ StoreFailsRead(s)
          \/ assignPermissionToRole(s)
          \/ removePermissionFromRole(s)
          \/ fetchData(s)
    \/ handleTogglePermissionResumed

AssignSpec == Init /\ [][AssignNext]_vars

\* ------------------------------------------------------------ busy markers
\* The load that mounting fired is over.  One page at a time is in use: toggles in the assignment view while the
\* assistant is idle, messages to the assistant while no toggle is being
\* processed.  A request may also reject instead of answering; every request
\* is answered or rejects in the end, and every continuation runs.
MaxBusy == 1        \* toggles and messages that go as far as a call

\* the awaited request rejects: the mutating hook functions have no catch, so
\* the promise they returned rejects to the caller and nothing is set
Rejects(s) ==
    /\ calls[s].op \notin {"idle", "load"}
    /\ calls[s].st = "sent"
    /\ calls' = [calls EXCEPT ![s] = Idle]
    /\ out' = Outcome(calls[s].op, "thrown", NoId, "none")
    /\ UNCHANGED <<mirror, store, issued, loaded, result, views, loading>>

\* the pages once the load that mounting fired has been installed: the
\* mirror holds what the store holds
BusyInit ==
    /\ dbPermissions = SeedPermissions
    /\ dbRoles = SeedRoles
    /\ dbRolePermissions \in {{}, SeedRolePermissions}
    /\ permissions \in {rows \in SeqsOf(dbPermissions) : IsSortedByName(rows)}
    /\ roles \in {rows \in SeqsOf(dbRoles) : IsSortedByName(rows)}
    /\ rolePermissions \in SeqsOf(dbRolePermissions)
    /\ nextId = FirstNewId
    /\ calls = [s \in Slots |-> Idle]
    /\ issued = 0
    /\ loaded = TRUE
    /\ out = Outcome("load", "undefined", NoId, "none")
    /\ result = NoResult
    /\ processing = NoId
    /\ peer = [permissions |-> <<>>, roles |-> <<>>, rolePermissions |-> <<>>,
               call |-> LoadCall]
    /\ answer = NoAnswer
    /\ sending = NotSending
    /\ loading = FALSE
    /\ messages = <<Greeting>>
    /\ input = EmptyName
    /\ reply = NoReply

\* the store deals with the request of slot s
BusyStore(s) ==
    \/ StoreInsertPermission(s)
    \/ StoreInsertRole(s)
    \/ StoreInsertRolePermission(s)
    \/ StoreDeleteRolePermission(s)
    \/ StoreFailsWrite(s)
    \/ Rejects(s)

\* the continuation of the hook function of slot s
BusyHandle(s) ==
    \/ createPermission(s)
    \/ createRole(s)
    \/ assignPermissionToRole(s)
    \/ removePermissionFromRole(s)

BusyNext ==
    \/ \E s \in Slots :
          \/ issued < MaxBusy /\ sending.st = "idle" /\ handleTogglePermission(s)
          \/ handleSendResumed(s)
          \/ BusyStore(s)
          \/ BusyHandle(s)
    \/ issued < MaxBusy /\ Len(messages) < MaxMessages /\ processing = NoId
          /\ handleSend
    \/ processing = NoId /\ setInput
    \/ serve
    \/ executeActionResumed
    \/ handleSendError
    \/ handleSendFinally
    \/ handleTogglePermissionResumed

\* requests and the edge function return, continuations run; nothing obliges
\* the user to click or to send
BusyFairness ==
    /\ \A s \in Slots : WF_vars(BusyStore(s)) /\ WF_vars(BusyHandle(s))
    /\ WF_vars(serve)
    /\ WF_vars((\E s \in Slots : handleSendResumed(s)) \/ handleSendError)
    /\ WF_vars(executeActionResumed)
    /\ WF_vars(handleSendFinally)
    /\ WF_vars(handleTogglePermissionResumed)

BusySpec == BusyInit /\ [][BusyNext]_vars /\ BusyFairness

\* =================================================================== claims
\* the step in which the continuation of call s (operation op) ran
Handled(s, op) == Done(s, op) /\ calls'[s].op = "idle"

Succeeded(s) == calls[s].error = "none"

AllIds == 0..nextId

LinksOf(links, r, p) ==
    {i \in DOMAIN links : links[i].role_id = r /\ links[i].permission_id = p}

\* the derived queries reach nothing through a link whose role or permission
\* is absent from the mirror
NoDanglingReach ==
    \A x \in AllIds :
        /\ x \notin Ids(Range(roles)) => getPermissionsForRole(x) = <<>>
        /\ x \notin Ids(Range(permissions)) => getRolesForPermission(x) = <<>>

\* C1: with awaited calls, after a successful deleteRole(id) (deletePermission(id))
\* the mirror holds no Role (Permission) with that id and no Assignment whose
\* role_id (permission_id) is that id, and permissionsForRole /
\* rolesForPermission return nothing through an Assignment whose Role or
\* Permission is absent from the mirror.
C1_CascadeDelete ==
    [][\A s \in Slots :
        /\ (Handled(s, "deleteRole") /\ Succeeded(s)) =>
              /\ calls[s].a \notin Ids(Range(roles'))
              /\ \A i \in DOMAIN rolePermissions' :
                    rolePermissions'[i].role_id # calls[s].a
              /\ NoDanglingReach'
        /\ (Handled(s, "deletePermission") /\ Succeeded(s)) =>
              /\ calls[s].a \notin Ids(Range(permissions'))
              /\ \A i \in DOMAIN rolePermissions' :
                    rolePermissions'[i].permission_id # calls[s].a
              /\ NoDanglingReach']_vars

\* C1 witness: the seeded role was linked by an assign and then deleted; the
\* link the assign made is gone from the mirror and from the store
C1_Witness ==
    /\ out.op = "deleteRole" /\ out.ret = "true"
    /\ Awaited /\ loaded /\ issued = 2
    /\ nextId = FirstNewId + 1
    /\ dbPermissions = SeedPermissions /\ dbRoles = {}
    /\ Len(permissions) = 1 /\ roles = <<>> /\ rolePermissions = <<>>

PairsIn(table, r, p) ==
    {l \in table : l.role_id = r /\ l.permission_id = p}

\* C2: with awaited calls, when assignPermissionToRole(r, p) has just
\* succeeded and the same call is made again, the second call adds nothing:
\* the mirror and the store each hold exactly one Assignment for (r, p), the
\* call returns null, and, the store having answered it, it toasts
\* "Already assigned" and not the generic error.
C2_SecondAssignAlreadyAssigned ==
    [][\A s \in Slots :
        ( /\ Handled(s, "assignPermissionToRole")
          /\ out.op = "assignPermissionToRole" /\ out.ret = "data"
          /\ \E i \in LinksOf(rolePermissions, calls[s].a, calls[s].b) :
                rolePermissions[i].id = out.id )
        => /\ Cardinality(LinksOf(rolePermissions', calls[s].a, calls[s].b)) = 1
           /\ Cardinality(PairsIn(dbRolePermissions', calls[s].a, calls[s].b)) = 1
           /\ out'.ret = "null"
           /\ calls[s].error # "network" => out'.toast = "Already assigned"]_vars

\* C2 witness: the two calls issued were assign(2, 1) twice; the first made
\* link FirstNewId, the second was answered "already assigned"
C2_Witness ==
    /\ out.op = "assignPermissionToRole" /\ out.toast = "Already assigned"
    /\ Awaited /\ loaded /\ issued = 2
    /\ nextId = FirstNewId + 1
    /\ Len(rolePermissions) = 1 /\ rolePermissions[1].id = FirstNewId

\* C3: no two Assignments of the mirror share a (role_id, permission_id) pair,
\* in any state, whatever calls overlap.
C3_NoDuplicatePairs ==
    \A i, j \in DOMAIN rolePermissions :
        (/\ rolePermissions[i].role_id = rolePermissions[j].role_id
         /\ rolePermissions[i].permission_id = rolePermissions[j].permission_id)
        => i = j

MutatingOps ==
    {"createPermission", "updatePermission", "deletePermission", "createRole",
     "updateRole", "deleteRole", "assignPermissionToRole",
     "removePermissionFromRole"}

FailureValue(op) ==
    IF op \in {"deletePermission", "deleteRole", "removePermissionFromRole"}
    THEN "false" ELSE "null"

\* what a caller can see of the reconciliation of call s in the next state
ReconciliationApplied(s) ==
    LET op == calls[s].op
        a == calls[s].a
        b == calls[s].b
        data == calls[s].data
    IN  CASE op = "createPermission" ->
                /\ data \in Range(permissions')
                /\ Len(permissions') = Len(permissions) + 1
          [] op = "createRole" ->
                /\ data \in Range(roles')
                /\ Len(roles') = Len(roles) + 1
          [] op = "updatePermission" ->
                /\ Ids(Range(permissions')) = Ids(Range(permissions))
                /\ \A i \in DOMAIN permissions' :
                      permissions'[i].id = a => permissions'[i] = data
          [] op = "updateRole" ->
                /\ Ids(Range(roles')) = Ids(Range(roles))
                /\ \A i \in DOMAIN roles' : roles'[i].id = a => roles'[i] = data
          [] op = "deletePermission" ->
                /\ a \notin Ids(Range(permissions'))
                /\ \A i \in DOMAIN rolePermissions' :
                      rolePermissions'[i].permission_id # a
          [] op = "deleteRole" ->
                /\ a \notin Ids(Range(roles'))
                /\ \A i \in DOMAIN rolePermissions' :
                      rolePermissions'[i].role_id # a
          [] op = "assignPermissionToRole" ->
                /\ data \in Range(rolePermissions')
                /\ Len(rolePermissions') = Len(rolePermissions) + 1
          [] op = "removePermissionFromRole" ->
                LinksOf(rolePermissions', a, b) = {}

\* C4: every mutating operation is all-or-nothing for the mirror: answered
\* with an error it leaves permissions, roles and rolePermissions unchanged
\* and returns its failure value (null or false); answered without one it
\* applies its reconciliation and returns something else.
C4_AllOrNothing ==
    [][\A s \in Slots : \A op \in MutatingOps :
        Handled(s, op) =>
            IF Succeeded(s)
            THEN ReconciliationApplied(s) /\ out'.ret # FailureValue(op)
            ELSE UNCHANGED mirror /\ out'.ret = FailureValue(op)]_vars

\* C4 witness: the one call issued was a deleteRole that the store answered
\* with an error; the role and its link are still in the mirror
C4_Witness ==
    /\ out.op = "deleteRole" /\ out.ret = "false"
    /\ issued = 1 /\ loaded /\ InFlight = {}
    /\ Len(roles) = 1 /\ Len(rolePermissions) = 1

MirrorInStore ==
    /\ Range(permissions) \subseteq dbPermissions
    /\ Range(roles) \subseteq dbRoles
    /\ Range(rolePermissions) \subseteq dbRolePermissions

NoChangeWhileInFlight ==
    [][\A s \in Slots :
        calls'[s].op \in MutatingOps => UNCHANGED mirror]_vars

\* C5 as stated: in every state every Permission, Role and Assignment of the
\* mirror is a row the store holds, and no step that leaves a mutating call
\* in flight (its issue, its execution by the store) changes the mirror.
C5_MirrorAlwaysInStore == []MirrorInStore /\ NoChangeWhileInFlight

\* C5 amended: with awaited calls, whenever no call is in flight every
\* Permission, Role and Assignment of the mirror is a row the store holds,
\* and no step that leaves a mutating call in flight changes the mirror.
C5_NoOptimisticUpdate == [](Awaited => MirrorInStore) /\ NoChangeWhileInFlight

\* C5 witness: an update of a row of the mirror has been executed by the
\* store and reconciled, and nothing is in flight
C5_Witness ==
    /\ Awaited /\ loaded
    /\ out.op = "updatePermission" /\ out.ret = "data"
    /\ \E i \in DOMAIN permissions :
          permissions[i].id = out.id /\ permissions[i].name # 2

\* C6: a load completes only when all three reads have answered, and if any
\* of them failed the completion leaves permissions, roles and
\* rolePermissions as they were.
C6_LoadFailsAsUnit ==
    [][\A s \in Slots :
        (calls[s].op = "load" /\ calls'[s].op # "load") =>
            /\ AllSettled(s)
            /\ AnyReadFailed(s) => UNCHANGED mirror]_vars

\* C6 witness: a reload has failed although its read of permissions was
\* answered; the mirror still holds the rows of the first load, which are no
\* longer the store's
C6_Witness ==
    /\ out.op = "load" /\ out.toast = "Error loading data"
    /\ loaded /\ permissions # <<>>
    /\ Range(permissions) # dbPermissions

\* C7: the permissions collection and the roles collection are each ordered by
\* name in every state, hence after every create, update, delete and load.
C7_SortedByName == IsSortedByName(permissions) /\ IsSortedByName(roles)

\* C7 witness: an update has just renamed a row of a two-row collection so
\* that it moved in front of the other row
C7_Witness ==
    /\ out.op = "updatePermission" /\ out.ret = "data"
    /\ Len(permissions) = 2
    /\ permissions[1].id = out.id
    /\ permissions[1].id > permissions[2].id
    /\ permissions[1].name < permissions[2].name

MirrorEqualsStore ==
    /\ Range(permissions) = dbPermissions
    /\ Range(roles) = dbRoles
    /\ Range(rolePermissions) = dbRolePermissions

\* C8: with awaited calls and after a first successful load, whenever no call
\* is in flight (after every operation, successful or failed) the mirror's
\* sets of Permissions, Roles and Assignments equal the store's tables.
C8_SequentialMirrorEqualsStore == (loaded /\ Awaited) => MirrorEqualsStore

\* C8 witness: a delete that cascaded in the store has been reconciled, after
\* a failed call, and the mirror is not empty
C8_Witness ==
    /\ loaded /\ Awaited
    /\ out.op = "deletePermission" /\ out.ret = "true"
    /\ nextId = FirstNewId + 2
    /\ Len(permissions) = 1 /\ Len(roles) = 1 /\ rolePermissions = <<>>

NoRowTwice ==
    /\ Cardinality(Range(permissions)) = Len(permissions)
    /\ Cardinality(Range(roles)) = Len(roles)
    /\ Cardinality(Range(rolePermissions)) = Len(rolePermissions)

\* C9: whatever calls overlapped, once a load has succeeded and no call is in
\* flight the mirror's Permissions, Roles and Assignments equal the store's
\* tables, and no row appears twice.
C9_QuiescentMirrorEqualsStore ==
    (loaded /\ InFlight = {}) => (MirrorEqualsStore /\ NoRowTwice)

\* C10: the continuation of a successful updatePermission(id) (updateRole(id))
\* leaves the mirror's entry for id equal to the row of its own response, so
\* after two overlapping updates the entry holds the data of the response
\* handled last, in whatever order the store executed them.
C10_LastAcknowledgmentWins ==
    [][\A s \in Slots :
        /\ (Handled(s, "updatePermission") /\ Succeeded(s)) =>
              /\ calls[s].a \in Ids(Range(permissions)) =>
                    calls[s].data \in Range(permissions')
              /\ \A i \in DOMAIN permissions' :
                    permissions'[i].id = calls[s].a => permissions'[i] = calls[s].data
        /\ (Handled(s, "updateRole") /\ Succeeded(s)) =>
              /\ calls[s].a \in Ids(Range(roles)) => calls[s].data \in Range(roles')
              /\ \A i \in DOMAIN roles' :
                    roles'[i].id = calls[s].a => roles'[i] = calls[s].data]_vars

\* C10 witness: two updates of one permission overlapped and both succeeded;
\* the response handled last was the one the store had executed first, so the
\* mirror's name for the permission is not the store's
C10_Witness ==
    /\ out.op = "updatePermission" /\ out.ret = "data"
    /\ loaded /\ InFlight = {}
    /\ \E i \in DOMAIN permissions : \E r \in dbPermissions :
          /\ permissions[i].id = out.id
          /\ r.id = out.id
          /\ r.name # permissions[i].name

LoadCompletes == \E s \in Slots : calls[s].op = "load" /\ calls'[s].op = "idle"

\* C11: the cascade of a delete is one step for whoever watches the mirror:
\* in any step other than a load's replacement in which a Permission (Role)
\* leaves the mirror, every Assignment that referenced it leaves the mirror
\* too, so no state shows the row gone and one of its Assignments still there.
C11_CascadeAtomic ==
    [][~LoadCompletes =>
        \A i \in DOMAIN rolePermissions' :
            /\ rolePermissions'[i].permission_id \in Ids(Range(permissions))
                  => rolePermissions'[i].permission_id \in Ids(Range(permissions'))
            /\ rolePermissions'[i].role_id \in Ids(Range(roles))
                  => rolePermissions'[i].role_id \in Ids(Range(roles'))]_vars

\* C11 witness: an assign linked the seeded permission to the seeded role and
\* a deletePermission then removed the permission together with that link
C11_Witness ==
    /\ out.op = "deletePermission" /\ out.ret = "true"
    /\ loaded /\ InFlight = {} /\ issued = 2
    /\ nextId = FirstNewId + 1
    /\ dbPermissions = {} /\ dbRoles = SeedRoles /\ dbRolePermissions = {}
    /\ permissions = <<>> /\ Len(roles) = 1 /\ rolePermissions = <<>>

\* C12: with awaited calls, removePermissionFromRole(r, p) made when no
\* Assignment for (r, p) exists (none in the mirror, none left in the store)
\* and answered by the store returns true and leaves permissions, roles and
\* rolePermissions unchanged; a second remove right after a successful one is
\* such a call, so it changes nothing the first had not changed.
C12_RemoveAbsentIsNoOp ==
    [][\A s \in Slots :
        ( /\ Handled(s, "removePermissionFromRole")
          /\ LinksOf(rolePermissions, calls[s].a, calls[s].b) = {}
          /\ PairsIn(dbRolePermissions, calls[s].a, calls[s].b) = {}
          /\ calls[s].error # "network" )
        => /\ out'.ret = "true" /\ out'.toast = "Permission removed"
           /\ UNCHANGED mirror]_vars

\* C12 witness: the seeded link was removed and a second remove followed; it
\* returned true and the mirror still holds the role and the permission
C12_Witness ==
    /\ out.op = "removePermissionFromRole" /\ out.ret = "true"
    /\ Awaited /\ loaded /\ issued = 2
    /\ nextId = FirstNewId
    /\ dbRolePermissions = {} /\ rolePermissions = <<>>
    /\ Len(permissions) = 1 /\ Len(roles) = 1

\* C13: when a successful assignPermissionToRole(r, p) is handled with Role r
\* and Permission p in the mirror, rolePermissions grows by exactly the
\* returned Assignment (which links r to p), permissionsForRole(r) then
\* contains p and rolesForPermission(p) contains r, and permissions and roles
\* are unchanged.
C13_AssignAddsReturnedLink ==
    [][\A s \in Slots : \A r \in Ids(Range(roles)) : \A p \in Ids(Range(permissions)) :
        ( /\ Handled(s, "assignPermissionToRole") /\ Succeeded(s)
          /\ calls[s].a = r /\ calls[s].b = p )
        => /\ rolePermissions' = Append(rolePermissions, calls[s].data)
           /\ calls[s].data.role_id = r /\ calls[s].data.permission_id = p
           /\ out'.ret = "data" /\ out'.id = calls[s].data.id
           /\ p \in Ids(Range(getPermissionsForRole(r)))'
           /\ r \in Ids(Range(getRolesForPermission(p)))'
           /\ UNCHANGED <<permissions, roles>>]_vars

\* C13 witness: a role was created and the seeded permission, already linked
\* to the seeded role, was assigned to it; the mirror holds both links and
\* the permission is reached from the new role
C13_Witness ==
    /\ out.op = "assignPermissionToRole" /\ out.ret = "data"
    /\ loaded /\ InFlight = {}
    /\ Len(rolePermissions) = 2 /\ rolePermissions[2].id = out.id
    /\ rolePermissions[1].role_id # rolePermissions[2].role_id
    /\ getPermissionsForRole(rolePermissions[2].role_id) = permissions
    /\ Len(getRolesForPermission(rolePermissions[2].permission_id)) = 2

NamedIn(rows, n) == {i \in DOMAIN rows : rows[i].name = n}

\* C14: with awaited calls, when a successful load is handled right after a
\* successful createPermission(n) that returned id, and n named no Permission
\* before the create (the store holds one row named n), the mirror holds
\* exactly one Permission named n and its id is id, the one the store
\* assigned.
C14_CreateThenLoadRoundTrip ==
    [][\A s \in Slots : \A row \in dbPermissions :
        ( /\ calls[s].op = "load" /\ calls'[s].op = "idle" /\ ~AnyReadFailed(s)
          /\ out.op = "createPermission" /\ out.ret = "data"
          /\ row.id = out.id
          /\ \A r \in dbPermissions : r.name = row.name => r = row )
        => /\ Cardinality(NamedIn(permissions', row.name)) = 1
           /\ \A i \in NamedIn(permissions', row.name) : permissions'[i] = row
           /\ row.id >= FirstNewId]_vars

\* C14 witness: a permission was created next to the seeded one and the page
\* reloaded; the mirror holds the seeded row and the created row, under the
\* id the store gave it
C14_Witness ==
    /\ out.op = "load" /\ out.toast = "none"
    /\ Awaited /\ loaded /\ issued = 2
    /\ nextId = FirstNewId + 1
    /\ Len(permissions) = 2
    /\ permissions[1] = [id |-> FirstNewId, name |-> 1, created_at |-> FirstNewId]
    /\ Range(permissions) = dbPermissions

\* C15: a successful load replaces the whole mirror: on the step that
\* completes it permissions, roles and rolePermissions become exactly the
\* results of its three reads, so an entry of the previous mirror that is in
\* none of them is gone.
C15_LoadReplacesMirror ==
    [][\A s \in Slots :
        (calls[s].op = "load" /\ calls'[s].op = "idle" /\ ~AnyReadFailed(s))
        => /\ permissions' = calls[s].permRes.data
           /\ roles' = calls[s].roleRes.data
           /\ rolePermissions' = calls[s].rpRes.data
           /\ Range(permissions') \cap
                  (Range(permissions) \ Range(calls[s].permRes.data)) = {}
           /\ Range(roles') \cap (Range(roles) \ Range(calls[s].roleRes.data)) = {}
           /\ Range(rolePermissions') \cap
                  (Range(rolePermissions) \ Range(calls[s].rpRes.data)) = {}
           /\ loaded']_vars

\* C15 witness: a load has just replaced a mirror that held a row its reads
\* did not return: the store holds a permission that the mirror, now empty,
\* held before
C15_Witness ==
    /\ out.op = "load" /\ out.toast = "none"
    /\ loaded /\ InFlight = {} /\ issued = 1
    /\ permissions = <<>> /\ roles = <<>> /\ rolePermissions = <<>>
    /\ dbPermissions = {[id |-> FirstNewId, name |-> 1, created_at |-> FirstNewId]}

\* the step is executeAction handling response up to its return or its await
Dispatched(response) ==
    /\ NotProcessing
    /\ result' # result
    /\ result'.response = response

LinkActions == {"assign_permission", "remove_permission"}

NothingSent == UNCHANGED <<calls, issued, mirror, store>>

\* C16 as stated: an assign_permission or remove_permission action whose
\* role_name matches no Role of the mirror is refused with a message naming
\* that role, one whose permission_name matches no Permission with a message
\* naming that permission; no call is issued and the mirror is unchanged.
C16_NotFoundNamesTheMissing ==
    [][\A response \in Responses :
        (Dispatched(response) /\ response.action \in LinkActions) =>
          /\ FindByName(roles, response.role_name) = NoRow =>
                /\ result'.success = "false"
                /\ result'.message = "Role not found"
                /\ result'.name = response.role_name
                /\ NothingSent
          /\ FindByName(permissions, response.permission_name) = NoRow =>
                /\ result'.success = "false"
                /\ result'.message = "Permission not found"
                /\ result'.name = response.permission_name
                /\ NothingSent]_vars

\* C16 amended: an assign_permission or remove_permission action of which a
\* name matches no entry of the mirror is refused, no call is issued and the
\* mirror is unchanged; with both names given, the message names the role
\* if the role is missing and the permission if only the permission is;
\* with a name empty or absent it says that both names are required.
C16_NotFoundIsRefused ==
    [][\A response \in Responses :
        ( /\ Dispatched(response) /\ response.action \in LinkActions
          /\ \/ FindByName(roles, response.role_name) = NoRow
             \/ FindByName(permissions, response.permission_name) = NoRow )
        => /\ result'.success = "false"
           /\ NothingSent
           /\ IF Falsy(response.role_name) \/ Falsy(response.permission_name)
              THEN result'.message = "Both role name and permission name are required"
              ELSE IF FindByName(roles, response.role_name) = NoRow
              THEN /\ result'.message = "Role not found"
                   /\ result'.name = response.role_name
              ELSE /\ result'.message = "Permission not found"
                   /\ result'.name = response.permission_name]_vars

\* C16 witness: the mirror holds the seeded role and permission, and an
\* assign_permission naming the role in another case and a permission that
\* does not exist has been refused with "Permission not found"
C16_Witness ==
    /\ loaded /\ InFlight = {} /\ issued = 0
    /\ Len(roles) = 1 /\ Len(permissions) = 1
    /\ result.response.action = "assign_permission"
    /\ result.response.role_name # roles[1].name
    /\ result.success = "false"
    /\ result.message = "Permission not found" /\ result.name = 3

\* C17: no insert is in flight, and none has been executed, for a Permission
\* or Role whose name is empty or white space only, whichever page made the
\* call.
C17_NoBlankInsert ==
    /\ \A s \in Slots :
          calls[s].op \in {"createPermission", "createRole"}
              => ~Falsy(trim(calls[s].a))
    /\ \A r \in dbPermissions \cup dbRoles : ~Falsy(trim(r.name))

\* what an operation returns when it succeeds
SuccessValue(op) ==
    IF op = "load" THEN "undefined"
    ELSE IF op \in {"deletePermission", "deleteRole", "removePermissionFromRole"}
    THEN "true" ELSE "data"

\* the call in slot s was answered with a remote failure
RemoteFailure(s) ==
    IF calls[s].op = "load" THEN AnyReadFailed(s) ELSE ~Succeeded(s)

\* C18: every core operation, load and the eight mutating ones, returns a
\* result that tells success from failure: completing after a remote failure
\* it returns something other than what it returns on success, and on
\* success it returns its success result.
C18_ResultTellsFailure ==
    [][\A s \in Slots :
        (calls[s].op # "idle" /\ calls'[s].op = "idle") =>
            IF RemoteFailure(s)
            THEN out'.ret # SuccessValue(calls[s].op)
            ELSE out'.ret = SuccessValue(calls[s].op)]_vars

\* what createPermission / createRole return and toast after a failure that
\* is not a rejected duplicate
OtherCreateFailure(op) ==
    Outcome(op, "null", NoId,
            IF op = "createPermission" THEN "Error creating permission"
            ELSE "Error creating role")

\* C19: a createPermission or createRole that the store rejects because the
\* name exists is reported differently from every other remote failure of
\* the call, in its return value or in the title of its toast, as the
\* rejected duplicate of assignPermissionToRole is ("Already assigned").
\* (The description of the toast is the store's message, passed through
\* unread; the model does not carry it.)
C19_DuplicateNameDistinguished ==
    [][\A s \in Slots : \A op \in {"createPermission", "createRole"} :
        (Handled(s, op) /\ ~Succeeded(s)) =>
            IF calls[s].error = "duplicate"
            THEN out' # OtherCreateFailure(op)
            ELSE out' = OtherCreateFailure(op)]_vars

\* the collection an update or a delete looks its id up in
CollectionOf(op) ==
    IF op \in {"updatePermission", "deletePermission"} THEN permissions ELSE roles

\* C20: with awaited calls, an updatePermission, updateRole, deletePermission
\* or deleteRole whose id matches no entry of the mirror returns its failure
\* value (null, false) and leaves permissions, roles and rolePermissions
\* unchanged.
C20_UnknownIdIsFailure ==
    [][\A s \in Slots :
        \A op \in {"updatePermission", "updateRole", "deletePermission", "deleteRole"} :
            (Handled(s, op) /\ calls[s].a \notin Ids(Range(CollectionOf(op))))
            => /\ out'.ret = FailureValue(op)
               /\ UNCHANGED mirror]_vars

\* C21: whatever calls overlap, when the continuation of a successful
\* assignPermissionToRole(r, p) adds its Assignment to the mirror, Role r and
\* Permission p are in the mirror.  (The ids a caller passes are ids of the
\* mirror at the moment of the call; an id that is in no table never makes
\* an assign succeed.)
C21_AssignAddsOnlyToPresent ==
    [][\A s \in Slots :
        (Handled(s, "assignPermissionToRole") /\ Succeeded(s)) =>
            /\ calls[s].a \in Ids(Range(roles))
            /\ calls[s].b \in Ids(Range(permissions))]_vars

\* the requests of the call in slot s that the store has answered
AnsweredOf(c) ==
    IF c.op = "idle" THEN {}
    ELSE IF c.op = "load"
    THEN {k \in {"permRes", "roleRes", "rpRes"} : c[k].st = "done"}
    ELSE IF c.st = "done" THEN {"write"} ELSE {}

\* the requests an invocation of op makes
RequestsOf(op) ==
    IF op = "load" THEN {"permRes", "roleRes", "rpRes"} ELSE {"write"}

Nth(idx, k) == CHOOSE i \in idx : Cardinality({j \in idx : j < i}) = k - 1

\* res is the entries of rows at the indices idx, each once, in their order
IsSelection(res, rows, idx) ==
    /\ Len(res) = Cardinality(idx)
    /\ \A k \in DOMAIN res : res[k] = rows[Nth(idx, k)]

\* C23: in every state and for every id, permissionsForRole(id) is the
\* entries of the permissions collection whose id is the permission_id of
\* some Assignment of the mirror with role_id = id, each entry once however
\* many Assignments name it, in the order of the collection; and
\* rolesForPermission(id) is the same for roles.
C23_DerivedQueriesSelect ==
    \A x \in AllIds :
        /\ IsSelection(getPermissionsForRole(x), permissions,
              {i \in DOMAIN permissions :
                  \E k \in DOMAIN rolePermissions :
                      /\ rolePermissions[k].role_id = x
                      /\ rolePermissions[k].permission_id = permissions[i].id})
        /\ IsSelection(getRolesForPermission(x), roles,
              {i \in DOMAIN roles :
                  \E k \in DOMAIN rolePermissions :
                      /\ rolePermissions[k].permission_id = x
                      /\ rolePermissions[k].role_id = roles[i].id})

\* C23 witness: one role holds two permissions; the Assignments are in the
\* order they were made, the query answers in the order of the permissions
\* collection, which is the other one
C23_Witness ==
    /\ Len(permissions) = 2 /\ Len(rolePermissions) = 2 /\ Len(roles) = 1
    /\ rolePermissions[1].role_id = roles[1].id
    /\ rolePermissions[2].role_id = roles[1].id
    /\ rolePermissions[1].permission_id = permissions[2].id
    /\ rolePermissions[2].permission_id = permissions[1].id
    /\ getPermissionsForRole(roles[1].id) = permissions
    /\ getRolesForPermission(permissions[1].id) = roles

\* C24: a step in which permissionsForRole or rolesForPermission is called
\* and answers leaves permissions, roles and the Assignments of the mirror
\* as they were, changes nothing in the store, and neither issues a call nor
\* completes one; what it answers is the query's value on that mirror.
C24_QueriesArePure ==
    [][answer' # answer =>
          /\ UNCHANGED <<mirror, store, calls, issued>>
          /\ answer'.rows = IF answer'.query = "getPermissionsForRole"
                            THEN getPermissionsForRole(answer'.id)
                            ELSE getRolesForPermission(answer'.id)]_vars

\* C24 witness: both queries have been called and have answered with rows;
\* the mirror still holds the Assignment the last answer came from
C24_Witness ==
    /\ answer.query = "getRolesForPermission"
    /\ answer.rows # <<>>
    /\ getPermissionsForRole(answer.rows[1].id) # <<>>
    /\ issued = 1
    /\ InFlight = {}

\* the rows of a collection that do not have the id, in their order
Others(rows, id) == SelectSeq(rows, LAMBDA x : x.id # id)

StampsOf(rows, id) == {x.created_at : x \in {y \in Range(rows) : y.id = id}}

\* rows becomes after by an update of the entry with the id
OnlyEntryChanged(rows, after, id) ==
    /\ Len(after) = Len(rows)
    /\ Ids(Range(after)) = Ids(Range(rows))
    /\ Others(after, id) = Others(rows, id)
    /\ StampsOf(after, id) = StampsOf(rows, id)

\* C25: on the step that handles a successful updatePermission(id, ...), the
\* permissions collection keeps its length and its set of ids, every entry
\* with another id is unchanged, the entry with that id keeps its id and its
\* created_at, and roles and the Assignments are unchanged; the same for
\* updateRole with permissions and roles exchanged.
C25_UpdateChangesOneEntry ==
    [][\A s \in Slots :
          /\ (Handled(s, "updatePermission") /\ Succeeded(s)) =>
                /\ OnlyEntryChanged(permissions, permissions', calls[s].a)
                /\ UNCHANGED <<roles, rolePermissions>>
          /\ (Handled(s, "updateRole") /\ Succeeded(s)) =>
                /\ OnlyEntryChanged(roles, roles', calls[s].a)
                /\ UNCHANGED <<permissions, rolePermissions>>]_vars

\* C25 witness: the seeded permission has been renamed; it is the same entry
\* with the same created_at, and its Assignment is still there
C25_Witness ==
    /\ out.op = "updatePermission" /\ out.ret = "data"
    /\ permissions = <<[id |-> 1, name |-> 1, created_at |-> 1]>>
    /\ rolePermissions # <<>>
    /\ Len(roles) = 2
    /\ InFlight = {}

\* the Assignments of a collection that are not of the pair, in their order
OtherLinks(links, r, p) ==
    SelectSeq(links, LAMBDA l : l.role_id # r \/ l.permission_id # p)

\* C26: on the step that handles a successful removePermissionFromRole(r, p),
\* the mirror afterwards holds no Assignment of the pair (r, p), holds every
\* other Assignment it held, in the same order and nothing else, and its
\* permissions and roles are unchanged.
C26_RemoveTakesOnlyThePair ==
    [][\A s \in Slots :
          (Handled(s, "removePermissionFromRole") /\ Succeeded(s)) =>
              /\ LinksOf(rolePermissions', calls[s].a, calls[s].b) = {}
              /\ OtherLinks(rolePermissions', calls[s].a, calls[s].b)
                    = OtherLinks(rolePermissions, calls[s].a, calls[s].b)
              /\ Len(rolePermissions') = Len(rolePermissions)
                    - Cardinality(LinksOf(rolePermissions, calls[s].a, calls[s].b))
              /\ UNCHANGED <<permissions, roles>>]_vars

\* C26 witness: the role held two permissions and the older Assignment has
\* been removed; the newer one is left, and both permissions are
C26_Witness ==
    /\ out.op = "removePermissionFromRole" /\ out.ret = "true"
    /\ Len(rolePermissions) = 1
    /\ rolePermissions[1].id = FirstNewId + 1
    /\ Len(permissions) = 2 /\ Len(roles) = 1
    /\ dbRolePermissions = Range(rolePermissions)

\* rows holds the rows of the table, each once
HoldsExactly(rows, table) ==
    Range(rows) = table /\ Len(rows) = Cardinality(table)

\* C27: with two useRBAC instances on one store, the collections of the
\* second change in no step but the one in which its own load is applied, so
\* a mutation handled by the first instance leaves them as they were; and
\* when a load of the second, made while no call of the first is in flight,
\* is applied without a failed read, its collections are the rows of the
\* store, which by then hold what the first instance's mutations did.
C27_MirrorsIndependent ==
    [][/\ PeerCollections' # PeerCollections =>
             /\ PeerSettled /\ PeerIdle'
             /\ UNCHANGED mirror
       /\ (\E s \in Slots : calls[s].op \in MutatingOps /\ calls'[s] # calls[s]) =>
             PeerCollections' = PeerCollections
       /\ (PeerSettled /\ PeerIdle' /\ ~PeerReadFailed) =>
             /\ HoldsExactly(peer'.permissions, dbPermissions)
             /\ HoldsExactly(peer'.roles, dbRoles)
             /\ HoldsExactly(peer'.rolePermissions, dbRolePermissions)
             /\ IsSortedByName(peer'.permissions) /\ IsSortedByName(peer'.roles)]_vars

\* C27 witness: both instances had loaded the seeded rows; the first has
\* since created a permission and holds it, the second has not loaded again
\* and still holds what it had
C27_Witness ==
    /\ out.op = "createPermission" /\ out.ret = "data"
    /\ Awaited /\ PeerIdle
    /\ Len(permissions) = 2 /\ Range(permissions) = dbPermissions
    /\ Range(peer.permissions) = SeedPermissions
    /\ Range(peer.roles) = SeedRoles

\* the assign and remove calls in flight
TogglesInFlight == {s \in Slots : calls[s].op \in LinkOps}

\* C28: in the assignment view at most one assignPermissionToRole or
\* removePermissionFromRole call is in flight at any time, and it is for the
\* permission the busy marker holds; in a step taken while the marker holds
\* a permission id, whatever toggle is requested, no call is issued, and the
\* marker stays as it is until the call has returned and it is cleared.
C28_OneToggleAtATime ==
    [][/\ Cardinality(TogglesInFlight') <= 1
       /\ \A s \in TogglesInFlight' : processing' = calls'[s].b
       /\ processing # NoId =>
             /\ issued' = issued
             /\ \A s \in Slots : calls[s].op = "idle" => calls'[s].op = "idle"
             /\ \/ processing' = processing
                \/ processing' = NoId /\ TogglesInFlight = {}]_vars

\* C28 witness: a first toggle has been through, a second one has set the
\* marker and its call is in flight; toggles requested now find the marker set
C28_Witness ==
    /\ processing # NoId
    /\ issued = 2
    /\ \E s \in Slots : calls[s].op = "removePermissionFromRole" /\ calls[s].st = "sent"
    /\ out.op = "assignPermissionToRole" /\ out.ret = "data"
    /\ ENABLED (\E s \in Slots : handleTogglePermission(s))

\* the entries whose name is the given one when both are put in lower case
Matches(rows, n) == {x \in Range(rows) : toLowerCase(x.name) = toLowerCase(n)}

\* C29: when the dispatcher handles an assign_permission or remove_permission
\* action, then, if the mirror holds a role whose lower-cased name is the
\* lower-cased role_name and a permission whose lower-cased name is the
\* lower-cased permission_name, it calls assignPermissionToRole
\* (removePermissionFromRole) with the id of such a role and the id of such
\* a permission; and if it holds no such role or no such permission, it
\* calls nothing.  The mirror is the one of the moment executeAction runs.
C29_NamesResolvedIgnoringCase ==
    [][\A response \in Responses :
        (Dispatched(response) /\ response.action \in LinkActions) =>
            IF /\ Matches(roles, response.role_name) # {}
               /\ Matches(permissions, response.permission_name) # {}
            THEN /\ issued' = issued + 1
                 /\ \E s \in Slots :
                       /\ calls[s].op = "idle"
                       /\ calls'[s].op = IF response.action = "assign_permission"
                                         THEN "assignPermissionToRole"
                                         ELSE "removePermissionFromRole"
                       /\ calls'[s].a \in Ids(Matches(roles, response.role_name))
                       /\ calls'[s].b
                            \in Ids(Matches(permissions, response.permission_name))
            ELSE NothingSent]_vars

\* after holds every entry before held and the entry data besides
AddedTo(before, after, data) ==
    /\ \A x \in Range(before) : x \in Range(after)
    /\ data \in Range(after)
    /\ Len(after) = Len(before) + 1

\* the call handled before this one was a successful op
JustAdded(op) == out.op = op /\ out.ret = "data"

\* C30: on the step that applies the acknowledgment of a successful
\* createPermission (createRole, assignPermissionToRole), the collection
\* afterwards holds everything the mirror held at that moment and the
\* acknowledged row besides; so when the acknowledgment applied just before
\* was that of another successful call of the same kind, the rows of both
\* are in the mirror, whichever of the two the store executed first.
C30_OverlappingAddsBothAppear ==
    [][\A s \in Slots :
          /\ (Handled(s, "createPermission") /\ Succeeded(s)) =>
                /\ AddedTo(permissions, permissions', calls[s].data)
                /\ JustAdded("createPermission") =>
                      {out.id, calls[s].data.id} \subseteq Ids(Range(permissions'))
          /\ (Handled(s, "createRole") /\ Succeeded(s)) =>
                /\ AddedTo(roles, roles', calls[s].data)
                /\ JustAdded("createRole") =>
                      {out.id, calls[s].data.id} \subseteq Ids(Range(roles'))
          /\ (Handled(s, "assignPermissionToRole") /\ Succeeded(s)) =>
                /\ AddedTo(rolePermissions, rolePermissions', calls[s].data)
                /\ JustAdded("assignPermissionToRole") =>
                      {out.id, calls[s].data.id} \subseteq Ids(Range(rolePermissions'))]_vars

\* C30 witness: two createPermission calls overlapped; the store executed
\* one first (its row has the lower id) and its acknowledgment was applied
\* last, after the other's; the mirror holds the two rows and nothing else
C30_Witness ==
    /\ out.op = "createPermission" /\ out.ret = "data" /\ out.id = FirstNewId
    /\ InFlight = {} /\ issued = 2
    /\ Len(permissions) = 2
    /\ Ids(Range(permissions)) = {FirstNewId, FirstNewId + 1}

\* the same for two assigns of different pairs
C30_AssignsOverlapped ==
    /\ out.op = "assignPermissionToRole" /\ out.ret = "data" /\ out.id = FirstNewId
    /\ InFlight = {} /\ issued = 2
    /\ Len(rolePermissions) = 2
    /\ Ids(Range(rolePermissions)) = {FirstNewId, FirstNewId + 1}
    /\ rolePermissions[1].permission_id # rolePermissions[2].permission_id

\* C31: in every state the loading flag is true if and only if a load is in
\* flight; in particular it is still true while the later of two overlapping
\* loads has not completed.
C31_LoadingIffLoadInFlight ==
    loading <=> (\E s \in Slots : calls[s].op = "load")

\* C32: provided every remote call returns, whenever the assignment view's
\* processing marker holds a permission id it is later null again, and
\* whenever the assistant is processing a message it is later not, whether
\* the call succeeded, answered with an error or rejected, and also when the
\* edge function's reply carries an error.
C32_BusyMarkersCleared ==
    /\ (processing # NoId) ~> (processing = NoId)
    /\ (sending.st # "idle") ~> (sending.st = "idle")

\* C32 witness: the call of a toggle rejected, and the marker is null again
C32_Witness ==
    /\ out.ret = "thrown" /\ out.op \in LinkOps
    /\ processing = NoId
    /\ InFlight = {}

\* the mirror holds an Assignment of permission p to role r, and p is one of
\* the permissions of the mirror
Assigned(r, p) ==
    /\ p \in Ids(Range(permissions))
    /\ \E i \in DOMAIN rolePermissions :
          rolePermissions[i].role_id = r /\ rolePermissions[i].permission_id = p

\* C33: a step of the assignment view that issues a call issues it for a role
\* and a permission of the mirror, and it is removePermissionFromRole exactly
\* when the mirror holds an Assignment of that permission to that role,
\* assignPermissionToRole otherwise; a remove that succeeded leaves the pair
\* out of the mirror where it was in, an assign that succeeded leaves it in
\* where it was out.
C33_ToggleFlipsMembership ==
    [][\A s \in Slots :
          /\ calls[s].op = "idle" /\ calls'[s].op \in LinkOps =>
                /\ calls'[s].a \in Ids(Range(roles))
                /\ calls'[s].b \in Ids(Range(permissions))
                /\ calls'[s].op = "removePermissionFromRole"
                      <=> Assigned(calls'[s].a, calls'[s].b)
          /\ calls[s].op \in LinkOps /\ calls'[s].op = "idle"
                /\ out'.ret \in {"data", "true"} =>
                \A r \in {calls[s].a}, p \in {calls[s].b} :
                    /\ Assigned(r, p) <=> calls[s].op = "removePermissionFromRole"
                    /\ Assigned(r, p)' <=> calls[s].op = "assignPermissionToRole"]_vars

\* C33 witness: the pair the store was opened with has been toggled off and
\* then on again, both with success
C33_Witness ==
    /\ issued = 2
    /\ processing = NoId
    /\ out.op = "assignPermissionToRole" /\ out.ret = "data"
    /\ Assigned(2, 1)
    /\ dbRolePermissions # SeedRolePermissions

CreateActions == {"create_permission", "create_role"}

\* the response is one of the four mutating actions and carries the names
\* the action needs
Complete(response) ==
    \/ response.action \in CreateActions /\ ~Falsy(response.name)
    \/ /\ response.action \in LinkActions
       /\ ~Falsy(response.role_name)
       /\ ~Falsy(response.permission_name)

\* C34: a step of the dispatcher issues a call only for one of the four
\* mutating actions with the names it needs; for info, error or any other
\* action, for a create action without a name, and for an assign or remove
\* action without a role name or a permission name, no call is issued and
\* neither the mirror nor the store changes, and in the cases where a
\* mutating action misses a name the result is a failure.
C34_OnlyCompleteActionsCall ==
    [][\A response \in Responses :
        Dispatched(response) =>
          /\ ~Complete(response) => NothingSent
          /\ calls' # calls => Complete(response)
          /\ response.action \in CreateActions \cup LinkActions /\ ~Complete(response)
                => result'.success = "false"]_vars

\* C34 witness: after the mount load a create_role without a name has been
\* refused, and nothing was called
C34_Witness ==
    /\ loaded /\ InFlight = {} /\ issued = 0
    /\ result.response.action = "create_role"
    /\ Falsy(result.response.name)
    /\ result.success = "false"
    /\ result.message = "Role name is required"

\* the run of the edge function failed: no API key, a gateway status that is
\* not OK, or a fetch that rejected
Failed(r) == r # NoReply /\ (~r.key \/ r.gateway # 200)

\* no step of the assistant's own changes anything but the chat: no call is
\* issued, the store is as it was, and the mirror changes only where a load
\* that was in flight is installed
NothingExecuted ==
    /\ \A s \in Slots : calls[s].op = "idle" => calls'[s].op = "idle"
    /\ issued' = issued
    /\ store' = store
    /\ mirror' # mirror => \E s \in Slots : calls[s].op = "load" /\ calls'[s].op = "idle"

\* C35: when the edge function fails (no API key, gateway status 429, 402 or
\* another that is not OK, or an exception) its response carries an error
\* field; from then until the message has been dealt with the client issues
\* no call and changes neither mirror nor store, and what it appends to the
\* chat is exactly one message of the assistant, marked as failed.
C35_FailureIsOneFailedMessage ==
    [][/\ Failed(reply') => reply'.error
       /\ Failed(reply) =>
             /\ NothingExecuted
             /\ IF reply' = reply
                THEN messages' = messages
                ELSE /\ reply' = NoReply
                     /\ messages' = Append(messages, Message("assistant", "false"))]_vars

\* C35 witness: a message was sent, the function failed, and the chat holds
\* the greeting, the message and one failed answer; nothing was called
C35_Witness ==
    /\ sending.st = "idle" /\ reply = NoReply
    /\ issued = 0
    /\ result.message = "Sorry, I encountered an error"
    /\ messages = <<Greeting, Message("user", "none"), Message("assistant", "false")>>

\* C36: the chat ends with a message of the user exactly while a command is
\* being processed, so one command at a time is; in a step taken while a
\* command is being processed or while the input is empty or white space
\* only, whatever send is requested, no message of the user is appended and
\* the edge function is not invoked; with an input like that and no command
\* in process no call is issued, and a command in process issues a call only
\* where its dispatcher does.
C36_OneCommandAtATime ==
    [][/\ sending'.st # "idle" <=> messages'[Len(messages')].role = "user"
       /\ Falsy(trim(input)) \/ sending.st # "idle" =>
             /\ ~(/\ Len(messages') > Len(messages)
                  /\ messages'[Len(messages')].role = "user")
             /\ sending'.st # "idle" => sending' = sending
             /\ result'.success = "sending" => result.success = "sending"
             /\ \A s \in Slots :
                   calls[s].op = "idle" /\ calls'[s].op # "idle" =>
                       /\ sending.st # "idle"
                       /\ result.success = "sending"
                       /\ result'.success = "awaiting"]_vars

\* C36 witness: a command is being processed, its hook operation is awaited,
\* and a send requested now is one the page would still take by its bounds
C36_Witness ==
    /\ sending.st = "invoked"
    /\ result.success = "awaiting"
    /\ messages[Len(messages)].role = "user"
    /\ Len(messages) < MaxMessages
    /\ ENABLED handleSend

\* the content holds no JSON object that can be parsed: it is undefined, has
\* no brace pair, or what lies from the first { to the last } is not JSON
Unparseable(content) == content = NoContent \/ ~JsonParses(JsonMatch(content))

\* the gateway answered OK with a content that cannot be parsed
Unparsed(r) == r # NoReply /\ r.key /\ r.gateway = 200 /\ Unparseable(r.content)

\* C37: when the content of the model's message holds no JSON object that
\* can be parsed, the edge function answers with status 200 and a body
\* without an error field whose action is "info" and whose data is null, and
\* the client issues no call and changes neither mirror nor store for it.
C37_UnparseableIsInfo ==
    [][/\ Unparsed(reply') =>
             /\ reply'.status = 200 /\ ~reply'.error
             /\ reply'.response.action = "info"
             /\ reply'.response.name = EmptyName
             /\ reply'.response.role_name = EmptyName
             /\ reply'.response.permission_name = EmptyName
       /\ Unparsed(reply) => NothingExecuted]_vars

\* C37 witness: the content had braces with text between them that is not
\* JSON, and executeAction has returned for the "info" answer without a call
C37_Witness ==
    /\ Unparsed(reply)
    /\ reply.content = <<"{", "x", "}">>
    /\ result.response.action = "info" /\ result.success = "true"
    /\ issued = 0

====
